---- MODULE Spec2Model ----
(***************************************************************************)
(* The authenticated-encryption core of the crypto thunks: the GHASH       *)
(* engine and the GCM construction (src/lib/thunks/gcm.c), the Poly1305    *)
(* engine (src/unnamed/part_000) and the ChaCha20-Poly1305 construction    *)
(* (src/test/SodiumTest/thunks/chacha20poly1305.c).                        *)
(*                                                                         *)
(* Bytes are the integers 0..255, byte strings are sequences of bytes, a   *)
(* C array of n bytes is a sequence of length n (index 1 is offset 0).     *)
(* An element of GF(2^128) is kept in its 16-byte big-endian encoding.     *)
(***************************************************************************)
EXTENDS Integers, Sequences, FiniteSets, TLC

VARIABLES
    \* ---- one GHASH / Poly1305 context driven by an arbitrary caller ----
    eng,      \* [kind ("ghash" or "poly": the engine the caller drives), key]
    gh,       \* the ghash_ctx
    poly,     \* the cf_poly1305
    fed,      \* the logical input accepted so far: [aad, cipher] byte strings
    log,      \* the 16-byte blocks handed to the block callback, in order
    macOut,   \* what the finalize calls stored in out[16], one entry per call
    trap,     \* TRUE once an assertion has aborted the caller
    ev,       \* the last call: [op, pre (phase before it), ok (not aborted)]
    seen,     \* the operations that have been called and have returned
    \* ---- one AEAD call after another: encrypt, then decrypt ----
    pc,       \* the statement the running call is at
    call,     \* the call and its arguments: [fn, key, nonce, header, input, ntag]
    bufs,     \* the caller's buffers the call writes: [output, tag]
    loc,      \* the local variables of the running call
    ret,      \* the value the last call returned
    wire,     \* what encrypt produced and what reaches decrypt
    obs       \* what has been observed of the running call

macVars == <<eng, gh, poly, fed, log, macOut, trap, ev, seen>>

aeadVars == <<pc, call, bufs, loc, ret, wire, obs>>

vars == <<eng, gh, poly, fed, log, macOut, trap, ev, seen,
          pc, call, bufs, loc, ret, wire, obs>>

(***************************************************************************)
(* Bounds of the model.                                                    *)
(***************************************************************************)
\* Bytes of associated data, and of ciphertext / message, fed to one context.
MaxAad == 17
MaxFeed == 33
\* Finalize calls made on one context.
MaxFinal == 2
\* Subkeys / one-time keys the MAC contexts are initialised with: 0..MaxMacKey.
MaxMacKey == 1

(***************************************************************************)
(* Bit operations on bytes.                                                *)
(***************************************************************************)
Xor1(a, b) == (a + b) % 2

\* a ^ b on uint8_t
Xor8(a, b) ==
      Xor1(a, b)
    + 2   * Xor1(a \div 2,   b \div 2)
    + 4   * Xor1(a \div 4,   b \div 4)
    + 8   * Xor1(a \div 8,   b \div 8)
    + 16  * Xor1(a \div 16,  b \div 16)
    + 32  * Xor1(a \div 32,  b \div 32)
    + 64  * Xor1(a \div 64,  b \div 64)
    + 128 * Xor1(a \div 128, b \div 128)

Or1(a, b) == IF a % 2 = 1 \/ b % 2 = 1 THEN 1 ELSE 0

\* a | b on uint8_t
Or8(a, b) ==
      Or1(a, b)
    + 2   * Or1(a \div 2,   b \div 2)
    + 4   * Or1(a \div 4,   b \div 4)
    + 8   * Or1(a \div 8,   b \div 8)
    + 16  * Or1(a \div 16,  b \div 16)
    + 32  * Or1(a \div 32,  b \div 32)
    + 64  * Or1(a \div 64,  b \div 64)
    + 128 * Or1(a \div 128, b \div 128)

\* n zero bytes (memset(p, 0, n) / an array initialised with { 0 })
RECURSIVE Zeros(_)
Zeros(n) == IF n = 0 THEN <<>> ELSE <<0>> \o Zeros(n - 1)

Zero16 == <<0,0,0,0,0,0,0,0,0,0,0,0,0,0,0,0>>

\* bytes first..last of s (C offsets first-1 .. last-1), empty when last < first
Slice(s, first, last) == IF last < first THEN <<>> ELSE SubSeq(s, first, last)

\* The XOR of two 16-byte blocks.
Xor16B(a, b) ==
    << Xor8(a[1],b[1]),   Xor8(a[2],b[2]),   Xor8(a[3],b[3]),   Xor8(a[4],b[4]),
       Xor8(a[5],b[5]),   Xor8(a[6],b[6]),   Xor8(a[7],b[7]),   Xor8(a[8],b[8]),
       Xor8(a[9],b[9]),   Xor8(a[10],b[10]), Xor8(a[11],b[11]), Xor8(a[12],b[12]),
       Xor8(a[13],b[13]), Xor8(a[14],b[14]), Xor8(a[15],b[15]), Xor8(a[16],b[16]) >>

\* xor_bb(out, x, y, len): out[i] = x[i] ^ y[i] for i < len; the value is the
\* len bytes stored.
RECURSIVE xor_bb(_, _, _)
xor_bb(x, y, len) ==
    IF len = 0 THEN <<>>
    ELSE Append(xor_bb(x, y, len - 1), Xor8(x[len], y[len]))

\* write64_be(v, buf): v as 8 big-endian bytes.  Every length of the model
\* is below 2^31, so the four high bytes are zero.
write64_be(v) ==
    << 0, 0, 0, 0,
       (v \div 16777216) % 256, (v \div 65536) % 256, (v \div 256) % 256, v % 256 >>

(***************************************************************************)
(* GF(2^128) as GCM uses it: bit 0 is the most significant bit of byte 0,  *)
(* the field polynomial is x^128 + x^7 + x^2 + x + 1.                      *)
(***************************************************************************)
\* cf_gf128_add: addition is XOR.
cf_gf128_add(x, y) == Xor16B(x, y)

\* Byte j of v shifted right by one bit across the whole block.
ShiftedByte(v, j) == (v[j] \div 2) + (IF j = 1 THEN 0 ELSE 128 * (v[j-1] % 2))

\* v * x in the field: shift right by one bit, fold the bit shifted out
\* back in with R = 0xe1 00 .. 00.
gf128_double(v) ==
    LET s1 == ShiftedByte(v, 1) IN
    << IF v[16] % 2 = 1 THEN Xor8(s1, 225) ELSE s1,
       ShiftedByte(v,2),  ShiftedByte(v,3),  ShiftedByte(v,4),  ShiftedByte(v,5),
       ShiftedByte(v,6),  ShiftedByte(v,7),  ShiftedByte(v,8),  ShiftedByte(v,9),
       ShiftedByte(v,10), ShiftedByte(v,11), ShiftedByte(v,12), ShiftedByte(v,13),
       ShiftedByte(v,14), ShiftedByte(v,15), ShiftedByte(v,16) >>

\* The eight bits of one byte yb of y, most significant first (k = 7 .. 0):
\* Z accumulates V for every set bit while V runs through V, V*X, V*X^2, ...
\* The value is [Z, V] after the byte.
RECURSIVE gf128_mul_byte(_, _, _, _)
gf128_mul_byte(Z, V, yb, k) ==
    IF k < 0 \/ Len(Z) # 16 \/ Len(V) # 16 THEN [ Z |-> Z, V |-> V ]
    ELSE gf128_mul_byte(IF (yb \div (2^k)) % 2 = 1 THEN Xor16B(Z, V) ELSE Z,
                        gf128_double(V), yb, k - 1)

\* TRUE when y has no set bit in byte j or later (bytes are 1..16).
NoBitFrom(y, j) == \A m \in j..16 : y[m] = 0

\* The bytes of y in order; the bytes after the last non-zero one add
\* nothing to Z.
RECURSIVE gf128_mul_loop(_, _, _, _)
gf128_mul_loop(Z, V, y, j) ==
    IF j > 16 THEN Z
    ELSE IF NoBitFrom(y, j) THEN Z
    ELSE LET zv == gf128_mul_byte(Z, V, y[j], 7)
         IN IF Len(zv.Z) # 16 THEN Z ELSE gf128_mul_loop(zv.Z, zv.V, y, j + 1)

\* cf_gf128_mul(x, y, out) (and cf_gf128_mul_fast, which computes the same
\* product with pclmulqdq): out = x * y.
cf_gf128_mul(x, y) == gf128_mul_loop(Zero16, x, y, 1)

(***************************************************************************)
(* cf_blockwise_accumulate: partial[nblock] holds npartial buffered bytes. *)
(* The value is the new buffer, the new count and the blocks handed to the *)
(* callback, in order.                                                     *)
(***************************************************************************)
\* Whole blocks of data taken directly, then the remainder buffered.
RECURSIVE blockwise_direct(_, _, _, _)
blockwise_direct(partial, nblock, data, blocks) ==
    IF Len(data) >= nblock
    THEN blockwise_direct(partial, nblock, Slice(data, nblock + 1, Len(data)),
                          Append(blocks, Slice(data, 1, nblock)))
    ELSE [ partial  |-> data \o Slice(partial, Len(data) + 1, nblock),
           npartial |-> Len(data),
           blocks   |-> blocks ]

cf_blockwise_accumulate(partial, npartial, nblock, data) ==
    IF npartial > 0 /\ Len(data) > 0
    THEN LET space  == nblock - npartial
             taken  == IF Len(data) < space THEN Len(data) ELSE space
             filled == Slice(partial, 1, npartial) \o Slice(data, 1, taken)
                          \o Slice(partial, npartial + taken + 1, nblock)
             rest   == Slice(data, taken + 1, Len(data))
         IN IF npartial + taken = nblock
            THEN blockwise_direct(filled, nblock, rest, <<filled>>)
            ELSE [ partial |-> filled, npartial |-> npartial + taken, blocks |-> <<>> ]
    ELSE IF Len(data) = 0
    THEN [ partial |-> partial, npartial |-> npartial, blocks |-> <<>> ]
    ELSE blockwise_direct(partial, nblock, data, <<>>)

(***************************************************************************)
(* GHASH (gcm.c).                                                          *)
(***************************************************************************)
STATE_INVALID == 0
STATE_AAD == 1
STATE_CIPHER == 2

\* sizeof ctx->buffer, the GHASH / Poly1305 / cipher block size
BLOCK == 16

\* The multiplier ghash_init selects: both backends compute the same
\* product, the context records which one it points to.
supports_pclmulqdq == TRUE

\* A ghash_ctx whose every byte is zero.
ZeroGhash ==
    [ H |-> Zero16, Y |-> Zero16, buffer |-> Zero16, buffer_used |-> 0,
      len_aad |-> 0, len_cipher |-> 0, state |-> 0, gf128_mul |-> "NULL" ]

ghash_init(H) ==
    [ ZeroGhash EXCEPT !.H = H,
                       !.state = STATE_AAD,
                       !.gf128_mul = IF supports_pclmulqdq THEN "cf_gf128_mul_fast"
                                     ELSE "cf_gf128_mul" ]

\* Y = (Y + data) * H
ghash_block(ctx, data) ==
    [ ctx EXCEPT !.Y = cf_gf128_mul(cf_gf128_add(data, ctx.Y), ctx.H) ]

RECURSIVE ghash_blocks(_, _, _)
ghash_blocks(ctx, blocks, i) ==
    IF i > Len(blocks) \/ Len(ctx.Y) # 16 THEN ctx
    ELSE ghash_blocks(ghash_block(ctx, blocks[i]), blocks, i + 1)

\* The blocks ghash_add(ctx, buf, n) hands to ghash_block.
ghash_add_blocks(ctx, buf) ==
    cf_blockwise_accumulate(ctx.buffer, ctx.buffer_used, BLOCK, buf).blocks

\* ghash_add ignoring the bytes already buffered.
ghash_add_Restart(ctx, buf) ==
    LET acc == cf_blockwise_accumulate(ctx.buffer, 0, BLOCK, buf)
    IN [ ghash_blocks(ctx, acc.blocks, 1) EXCEPT !.buffer = acc.partial,
                                                 !.buffer_used = acc.npartial ]

ghash_add(ctx, buf) ==
    LET acc == cf_blockwise_accumulate(ctx.buffer, ctx.buffer_used, BLOCK, buf)
    IN [ ghash_blocks(ctx, acc.blocks, 1) EXCEPT !.buffer = acc.partial,
                                                 !.buffer_used = acc.npartial ]

\* The block ghash_add_pad(ctx) hands to ghash_block, if any.
ghash_pad_blocks(ctx) ==
    IF ctx.buffer_used = 0 THEN <<>>
    ELSE << Slice(ctx.buffer, 1, ctx.buffer_used) \o Zeros(BLOCK - ctx.buffer_used) >>

\* ghash_add_pad without its last statement: the count of buffered bytes stays.
ghash_add_pad_KeepCount(ctx) ==
    IF ctx.buffer_used = 0 THEN ctx
    ELSE LET padded == Slice(ctx.buffer, 1, ctx.buffer_used)
                          \o Zeros(BLOCK - ctx.buffer_used)
         IN ghash_block([ctx EXCEPT !.buffer = padded], padded)

ghash_add_pad(ctx) ==
    IF ctx.buffer_used = 0 THEN ctx
    ELSE LET padded == Slice(ctx.buffer, 1, ctx.buffer_used)
                          \o Zeros(BLOCK - ctx.buffer_used)
         IN [ ghash_block([ctx EXCEPT !.buffer = padded], padded)
                EXCEPT !.buffer_used = 0 ]

\* The assertion of ghash_add_aad letting the CIPHER phase pass.
ghash_add_aad_assert_Lax(ctx) == ctx.state # STATE_INVALID

\* assert(ctx->state == STATE_AAD)
ghash_add_aad_assert(ctx) == ctx.state = STATE_AAD

ghash_add_aad(ctx, buf) ==
    ghash_add([ctx EXCEPT !.len_aad = ctx.len_aad + Len(buf)], buf)

\* The context when ghash_add_cipher reaches its assertion.
ghash_add_cipher_enter(ctx) ==
    IF ctx.state = STATE_AAD
    THEN [ ghash_add_pad(ctx) EXCEPT !.state = STATE_CIPHER ]
    ELSE ctx

\* assert(ctx->state == STATE_CIPHER)
ghash_add_cipher_assert(ctx) == ghash_add_cipher_enter(ctx).state = STATE_CIPHER

ghash_add_cipher(ctx, buf) ==
    LET c == ghash_add_cipher_enter(ctx)
    IN ghash_add([c EXCEPT !.len_cipher = c.len_cipher + Len(buf)], buf)

\* ghash_final hashing the lengths in bytes, not in bits.
ghash_final_enter_ByteLengths(ctx) ==
    LET c == IF ctx.state = STATE_AAD \/ ctx.state = STATE_CIPHER
             THEN [ ghash_add_pad(ctx) EXCEPT !.state = STATE_INVALID ]
             ELSE ctx
        a == ghash_add(c, write64_be(c.len_aad))
    IN ghash_add(a, write64_be(a.len_cipher))

\* The context when ghash_final reaches its assertion.
ghash_final_enter(ctx) ==
    LET c == IF ctx.state = STATE_AAD \/ ctx.state = STATE_CIPHER
             THEN [ ghash_add_pad(ctx) EXCEPT !.state = STATE_INVALID ]
             ELSE ctx
        a == ghash_add(c, write64_be(c.len_aad * 8))
    IN ghash_add(a, write64_be(a.len_cipher * 8))

\* assert(ctx->buffer_used == 0)
ghash_final_assert(ctx) == ghash_final_enter(ctx).buffer_used = 0

\* The context ghash_final leaves; out[16] is its Y.
ghash_final(ctx) == ghash_final_enter(ctx)

ghash_final_out(ctx) == ghash_final_enter(ctx).Y

\* The blocks one ghash_final call hands to ghash_block.
ghash_final_blocks(ctx) ==
    LET pad == IF ctx.state = STATE_AAD \/ ctx.state = STATE_CIPHER
               THEN ghash_pad_blocks(ctx) ELSE <<>>
        c == IF ctx.state = STATE_AAD \/ ctx.state = STATE_CIPHER
             THEN [ ghash_add_pad(ctx) EXCEPT !.state = STATE_INVALID ]
             ELSE ctx
        l1 == write64_be(c.len_aad * 8)
        a == ghash_add(c, l1)
    IN pad \o ghash_add_blocks(c, l1) \o ghash_add_blocks(a, write64_be(a.len_cipher * 8))

(***************************************************************************)
(* Constant-time helpers.                                                  *)
(***************************************************************************)
\* The uint32_t 0xffffffff, which the code writes as -(1).
ALL_ONES == -1

\* mask_u32(x, y): 0xffffffff if x == y, zero otherwise.  The code takes
\* bit 31 of ~diff & (diff - 1) with diff = x ^ y: for the byte-sized
\* operands it is used with, bit 31 of ~diff is always set and bit 31 of
\* diff - 1 is set exactly when the subtraction wraps, i.e. diff = 0.
mask_u32(x, y) ==
    LET diff == Xor8(x, y)
        diff_is_zero_bit31 == IF diff = 0 THEN 1 ELSE 0
    IN IF diff_is_zero_bit31 = 1 THEN ALL_ONES ELSE 0

\* v & mask and mask ^ 0xffffffff for a mask that is 0 or 0xffffffff.
And32(v, mask) == IF mask = ALL_ONES THEN v ELSE 0

Not32(mask) == IF mask = ALL_ONES THEN 0 ELSE ALL_ONES

\* mem_clean(v, len) on a byte array: the first len bytes become zero
\* (nothing is touched when len is 0).
mem_clean(v, len) == IF len = 0 THEN v ELSE Zeros(len) \o Slice(v, len + 1, Len(v))

\* mem_eq(va, vb, len): every one of the len byte pairs is read and folded
\* into diff; the value is [diff, steps (loop iterations made)].
\* mem_eq_loop leaving the loop at the first pair that differs.
RECURSIVE mem_eq_loop_EarlyExit(_, _, _, _)
RECURSIVE mem_eq_loop(_, _, _, _)
mem_eq_loop_EarlyExit(a, b, len, i) ==
    IF i = len THEN [ diff |-> 0, steps |-> 0 ]
    ELSE IF a[i + 1] # b[i + 1] THEN [ diff |-> Xor8(a[i + 1], b[i + 1]), steps |-> 1 ]
    ELSE LET rest == mem_eq_loop_EarlyExit(a, b, len, i + 1)
         IN [ diff |-> rest.diff, steps |-> rest.steps + 1 ]

mem_eq_loop(a, b, len, i) ==
    IF i = len THEN [ diff |-> 0, steps |-> 0 ]
    ELSE LET rest == mem_eq_loop(a, b, len, i + 1)
         IN [ diff  |-> Or8(Xor8(a[i + 1], b[i + 1]), rest.diff),
              steps |-> rest.steps + 1 ]

\* mem_eq with diff = in place of diff |=: the last byte decides.
mem_eq_LastByte(a, b, len) == IF len = 0 \/ a[len] = b[len] THEN 1 ELSE 0

mem_eq(a, b, len) == IF mem_eq_loop(a, b, len, 0).diff = 0 THEN 1 ELSE 0

\* write64_le(v, buf): v as 8 little-endian bytes (v >> 32 and above is
\* zero for every length of the model).
write64_le(v) ==
    << v % 256, (v \div 256) % 256, (v \div 65536) % 256, (v \div 16777216) % 256,
       0, 0, 0, 0 >>

(***************************************************************************)
(* Poly1305 (part_000).  h and r are 17 limbs in radix 2^8; limb k of the  *)
(* code is element k + 1 of the sequence.                                  *)
(***************************************************************************)
Zero17 == <<0,0,0,0,0,0,0,0,0,0,0,0,0,0,0,0,0>>

\* A cf_poly1305 whose every byte is zero.
ZeroPoly ==
    [ h |-> Zero17, r |-> Zero17, s |-> Zero16, partial |-> Zero16, npartial |-> 0 ]

\* cf_poly1305_init with each mask one limb further up.
cf_poly1305_init_ShiftedClamp(r, s) ==
    [ ZeroPoly EXCEPT
        !.r = << r[1], r[2], r[3], r[4],
                 r[5] % 16, (r[6] \div 4) * 4, r[7], r[8],
                 r[9] % 16, (r[10] \div 4) * 4, r[11], r[12],
                 r[13] % 16, (r[14] \div 4) * 4, r[15], r[16],
                 0 >>,
        !.s = s ]

cf_poly1305_init(r, s) ==
    [ ZeroPoly EXCEPT
        !.r = << r[1], r[2], r[3], r[4] % 16,
                 (r[5] \div 4) * 4, r[6], r[7], r[8] % 16,
                 (r[9] \div 4) * 4, r[10], r[11], r[12] % 16,
                 (r[13] \div 4) * 4, r[14], r[15], r[16] % 16,
                 0 >>,
        !.s = s ]

\* for (i = 0; i < 17; i++) { carry += h[i] + x[i]; h[i] = carry & 0xff; carry >>= 8; }
RECURSIVE poly1305_add_loop(_, _, _, _, _)
poly1305_add_loop(h, x, i, carry, acc) ==
    IF i > 17 THEN acc
    ELSE LET c == carry + h[i] + x[i]
         IN poly1305_add_loop(h, x, i + 1, c \div 256, Append(acc, c % 256))

poly1305_add(h, x) == poly1305_add_loop(h, x, 1, 0, <<>>)

\* One carry chain over limbs 0..15: the value is [x (the 16 limbs), carry].
RECURSIVE poly1305_carry16(_, _, _, _)
poly1305_carry16(x, i, carry, acc) ==
    IF i > 16 THEN [ x |-> acc, carry |-> carry ]
    ELSE LET c == carry + x[i]
         IN poly1305_carry16(x, i + 1, c \div 256, Append(acc, c % 256))

\* poly1305_min_reduce leaving the whole carry in the top limb.
poly1305_min_reduce_NoFold(x) ==
    LET first == poly1305_carry16(x, 1, 0, <<>>)
    IN Append(first.x, first.carry + x[17])

poly1305_min_reduce(x) ==
    LET first  == poly1305_carry16(x, 1, 0, <<>>)
        top    == first.carry + x[17]
        x16    == top % 4
        second == poly1305_carry16(first.x, 1, 5 * (top \div 4), <<>>)
    IN Append(second.x, x16 + second.carry)

\* - (2 ** 130 - 5) in twos complement
negative_1305 == <<5, 0, 0, 0, 0, 0, 0, 0, 0, 0, 0, 0, 0, 0, 0, 0, 252>>

\* xsub[16] & 0x80
Bit7(v) == ((v \div 128) % 2) * 128

\* poly1305_full_reduce always taking the difference.
poly1305_full_reduce_NoSelect(x) == poly1305_add(x, negative_1305)

poly1305_full_reduce(x) ==
    LET xsub == poly1305_add(x, negative_1305)
        negative_mask == mask_u32(Bit7(xsub[17]), 128)
        positive_mask == Not32(negative_mask)
    IN [ i \in 1..17 |-> And32(x[i], negative_mask) + And32(xsub[i], positive_mask) ]

\* accum for limb i (0-based): sum over j <= i of x[j] * y[i - j], plus
\* (5 << 6) times the sum over j > i of x[j] * y[i + 17 - j].
RECURSIVE poly1305_mul_accum(_, _, _, _)
poly1305_mul_accum(x, y, i, j) ==
    IF j > 16 THEN 0
    ELSE (IF j <= i THEN x[j + 1] * y[i - j + 1]
          ELSE 320 * x[j + 1] * y[i + 17 - j + 1])
         + poly1305_mul_accum(x, y, i, j + 1)

\* r[] of poly1305_mul before the reduction.
poly1305_mul_raw(x, y) ==
    << poly1305_mul_accum(x, y, 0, 0),  poly1305_mul_accum(x, y, 1, 0),
       poly1305_mul_accum(x, y, 2, 0),  poly1305_mul_accum(x, y, 3, 0),
       poly1305_mul_accum(x, y, 4, 0),  poly1305_mul_accum(x, y, 5, 0),
       poly1305_mul_accum(x, y, 6, 0),  poly1305_mul_accum(x, y, 7, 0),
       poly1305_mul_accum(x, y, 8, 0),  poly1305_mul_accum(x, y, 9, 0),
       poly1305_mul_accum(x, y, 10, 0), poly1305_mul_accum(x, y, 11, 0),
       poly1305_mul_accum(x, y, 12, 0), poly1305_mul_accum(x, y, 13, 0),
       poly1305_mul_accum(x, y, 14, 0), poly1305_mul_accum(x, y, 15, 0),
       poly1305_mul_accum(x, y, 16, 0) >>

poly1305_mul(x, y) == poly1305_min_reduce(poly1305_mul_raw(x, y))

poly1305_block(ctx, c) ==
    [ ctx EXCEPT !.h = poly1305_mul(poly1305_add(ctx.h, c), ctx.r) ]

\* c[0..15] = buf[0..15], c[16] = 1
poly1305_whole_block_c(buf) == Append(Slice(buf, 1, 16), 1)

poly1305_whole_block(ctx, buf) == poly1305_block(ctx, poly1305_whole_block_c(buf))

\* poly1305_last_block_c with the marker where a whole block has it.
poly1305_last_block_c_MarkerAt16(ctx) ==
    Slice(ctx.partial, 1, ctx.npartial) \o Zeros(16 - ctx.npartial) \o <<1>>

\* c = { 0 }; c[0..npartial-1] = partial; c[npartial] = 1
poly1305_last_block_c(ctx) ==
    Slice(ctx.partial, 1, ctx.npartial) \o <<1>> \o Zeros(16 - ctx.npartial)

poly1305_last_block(ctx) == poly1305_block(ctx, poly1305_last_block_c(ctx))

RECURSIVE poly1305_blocks(_, _, _)
poly1305_blocks(ctx, blocks, i) ==
    IF i > Len(blocks) \/ Len(ctx.h) # 17 THEN ctx
    ELSE poly1305_blocks(poly1305_whole_block(ctx, blocks[i]), blocks, i + 1)

\* The blocks cf_poly1305_update(ctx, buf, nbytes) hands to poly1305_whole_block.
cf_poly1305_update_blocks(ctx, buf) ==
    cf_blockwise_accumulate(ctx.partial, ctx.npartial, BLOCK, buf).blocks

\* cf_poly1305_update that does not store the new count.
cf_poly1305_update_StaleCount(ctx, buf) ==
    LET acc == cf_blockwise_accumulate(ctx.partial, ctx.npartial, BLOCK, buf)
    IN [ poly1305_blocks(ctx, acc.blocks, 1) EXCEPT !.partial = acc.partial ]

cf_poly1305_update(ctx, buf) ==
    LET acc == cf_blockwise_accumulate(ctx.partial, ctx.npartial, BLOCK, buf)
    IN [ poly1305_blocks(ctx, acc.blocks, 1) EXCEPT !.partial = acc.partial,
                                                    !.npartial = acc.npartial ]

\* if (ctx->npartial) poly1305_last_block(ctx);
cf_poly1305_finish_last(ctx) ==
    IF ctx.npartial # 0 THEN poly1305_last_block(ctx) ELSE ctx

\* The context cf_poly1305_finish has when it stores the tag: the pending
\* partial block absorbed, h fully reduced, s added.
cf_poly1305_finish_sum(ctx) ==
    LET c == cf_poly1305_finish_last(ctx)
    IN [ c EXCEPT !.h = poly1305_add(poly1305_full_reduce(c.h), Append(c.s, 0)) ]

\* out[16] of cf_poly1305_finish
cf_poly1305_finish_out(ctx) == Slice(cf_poly1305_finish_sum(ctx).h, 1, 16)

(***************************************************************************)
(* The largest value the uint32_t variables carry and accum take: the same *)
(* loops, the value being the maximum over their iterations.               *)
(***************************************************************************)
Max2(a, b) == IF a > b THEN a ELSE b

MaxOf(S) == CHOOSE m \in S : \A v \in S : v <= m

\* carry += h[i] + x[i]
RECURSIVE poly1305_add_peak(_, _, _, _, _)
poly1305_add_peak(h, x, i, carry, peak) ==
    IF i > 17 THEN peak
    ELSE LET c == carry + h[i] + x[i]
         IN poly1305_add_peak(h, x, i + 1, c \div 256, Max2(peak, c))

\* carry += x[i]
RECURSIVE poly1305_carry16_peak(_, _, _, _)
poly1305_carry16_peak(x, i, carry, peak) ==
    IF i > 16 THEN peak
    ELSE LET c == carry + x[i]
         IN poly1305_carry16_peak(x, i + 1, c \div 256, Max2(peak, c))

\* carry and x[16] through poly1305_min_reduce
poly1305_min_reduce_peak(x) ==
    LET first  == poly1305_carry16(x, 1, 0, <<>>)
        top    == first.carry + x[17]
        fold   == 5 * (top \div 4)
        second == poly1305_carry16(first.x, 1, fold, <<>>)
    IN MaxOf({ poly1305_carry16_peak(x, 1, 0, 0), top, fold,
               poly1305_carry16_peak(first.x, 1, fold, 0), (top % 4) + second.carry })

\* accum (its last value for a limb is its largest) and the reduction of r[]
poly1305_mul_peak(x, y) ==
    LET r == poly1305_mul_raw(x, y)
    IN MaxOf({ r[i] : i \in 1..17 } \cup { poly1305_min_reduce_peak(r) })

\* poly1305_add(ctx->h, c); poly1305_mul(ctx->h, ctx->r);
poly1305_block_peak(ctx, c) ==
    Max2(poly1305_add_peak(ctx.h, c, 1, 0, 0),
         poly1305_mul_peak(poly1305_add(ctx.h, c), ctx.r))

RECURSIVE poly1305_blocks_peak(_, _, _, _)
poly1305_blocks_peak(ctx, blocks, i, peak) ==
    IF i > Len(blocks) \/ Len(ctx.h) # 17 THEN peak
    ELSE poly1305_blocks_peak(poly1305_whole_block(ctx, blocks[i]), blocks, i + 1,
                              Max2(peak, poly1305_block_peak(ctx, poly1305_whole_block_c(blocks[i]))))

cf_poly1305_update_peak(ctx, buf) ==
    poly1305_blocks_peak(ctx, cf_poly1305_update_blocks(ctx, buf), 1, 0)

cf_poly1305_finish_peak(ctx) ==
    LET x == cf_poly1305_finish_last(ctx).h
        red == poly1305_full_reduce(x)
    IN IF Len(x) # 17 \/ Len(red) # 17 THEN 0
       ELSE MaxOf({ IF ctx.npartial # 0
                    THEN poly1305_block_peak(ctx, poly1305_last_block_c(ctx)) ELSE 0,
                    poly1305_add_peak(x, negative_1305, 1, 0, 0),
                    poly1305_add_peak(red, Append(ctx.s, 0), 1, 0, 0) })

\* mem_clean over the accumulator only.
poly1305_clean_AccOnly(ctx) == [ ctx EXCEPT !.h = Zero17 ]

\* mem_clean(ctx, sizeof *ctx)
poly1305_clean(ctx) == ZeroPoly

\* The context cf_poly1305_finish leaves.
cf_poly1305_finish(ctx) == poly1305_clean(cf_poly1305_finish_sum(ctx))

\* Byte i (1-based) of the stream with the given seed.
ByteAt(seed, i) == (seed + 29 * i + (i \div 7) * 3) % 256

\* The n bytes of the stream that follow its first `from` bytes.
Bytes(seed, from, n) == [ i \in 1..n |-> ByteAt(seed, from + i) ]

(***************************************************************************)
(* The block cipher capability (cf_prp) and counter mode (cf_ctr).         *)
(***************************************************************************)
\* The block cipher keys of the model: key k of 0..MaxKey.  prp->encrypt
\* under key k is a permutation of the 16-byte blocks: the block rotated
\* left by one byte, XORed with PrpKey(k).  Key 0 encrypts the zero block
\* to itself (H = 0); an odd key gives an H of low degree, an even key an
\* H whose first two bytes are zero.
PrpKey(k) ==
    IF k = 0 THEN Zero16
    ELSE IF k % 2 = 1
    THEN << (5 + 61 * k) % 256, (128 * k) % 256, 0, 0, 0, 0, 0, 0, 0, 0, 0, 0, 0, 0, 0, 0 >>
    ELSE << 0, 0, (5 + 61 * k) % 256, 128, 0, 0, 0, 0, 0, 0, 0, 0, 0, 0, 0, 0 >>

RotL1(b) ==
    << b[2], b[3], b[4], b[5], b[6], b[7], b[8], b[9], b[10], b[11], b[12], b[13],
       b[14], b[15], b[16], b[1] >>

prp_encrypt(k, b) == Xor16B(RotL1(b), PrpKey(k))

\* A cf_ctr whose every byte is zero.
ZeroCtr ==
    [ prp |-> "NULL", nonce |-> Zero16, keymat |-> Zero16, nkeymat |-> 0,
      counter_offset |-> 0, counter_width |-> 0 ]

cf_ctr_init(nonce) ==
    [ ZeroCtr EXCEPT !.prp = "prp", !.nonce = nonce, !.counter_width = BLOCK ]

cf_ctr_custom_counter(ctr, offset, width) ==
    [ ctr EXCEPT !.counter_offset = offset, !.counter_width = width ]

\* The big-endian counter in bytes lo..hi of v (1-based) plus one, wrapping.
RECURSIVE incr_be(_, _, _)
incr_be(v, lo, hi) ==
    IF hi < lo THEN v
    ELSE IF v[hi] = 255 THEN incr_be([v EXCEPT ![hi] = 0], lo, hi - 1)
    ELSE [v EXCEPT ![hi] = @ + 1]

\* The next keystream block: the counter block encrypted, then the counter
\* field stepped.
ctr_next_block(ctr, k) ==
    [ ctr EXCEPT !.keymat = prp_encrypt(k, ctr.nonce),
                 !.nkeymat = BLOCK,
                 !.nonce = incr_be(ctr.nonce, ctr.counter_offset + 1,
                                   ctr.counter_offset + ctr.counter_width) ]

\* cf_ctr_cipher(ctr, input, output, bytes): the value is [ctr, out, used],
\* used being the counter blocks encrypted during the call, in order.
RECURSIVE cf_ctr_cipher_loop(_, _, _, _, _, _)
cf_ctr_cipher_loop(ctr, k, input, i, out, used) ==
    IF i > Len(input) THEN [ ctr |-> ctr, out |-> out, used |-> used ]
    ELSE LET c == IF ctr.nkeymat = 0 THEN ctr_next_block(ctr, k) ELSE ctr
             u == IF ctr.nkeymat = 0 THEN Append(used, ctr.nonce) ELSE used
         IN cf_ctr_cipher_loop([c EXCEPT !.nkeymat = @ - 1], k, input, i + 1,
                               Append(out, Xor8(input[i], c.keymat[BLOCK - c.nkeymat + 1])),
                               u)

cf_ctr_cipher(ctr, k, input) == cf_ctr_cipher_loop(ctr, k, input, 1, <<>>, <<>>)

(***************************************************************************)
(* AEAD calls.  A caller encrypts a message, the ciphertext, tag and       *)
(* associated data travel to the receiver (one bit may be flipped on the   *)
(* way), and the receiver decrypts.                                        *)
(***************************************************************************)
\* Block cipher / ChaCha20 keys: 0..MaxKey.
MaxKey == 2
\* Longest associated data and payload, in bytes.
MaxLen == 17

\* The nonce, associated data and plaintext of a call, by length.
NonceBytes(n) == Bytes(90, 0, n)

HeaderBytes(n) == Bytes(33, 0, n)

PlainBytes(n) == Bytes(140, 0, n)

\* Lengths of associated data and of payload: none, one byte, more than a block.
DataLens == {0, 1, MaxLen}

\* The same for the ChaCha20-Poly1305 calls, with a whole block as well.
ChaChaLens == {0, 1, BLOCK, MaxLen}

\* Nonce lengths of the GCM calls.
GcmNonceLens == {0, 12, BLOCK}

\* Tag lengths of the GCM calls: the boundaries of the accepted range.
GcmTagLens == {0, 1, 2, BLOCK, BLOCK + 1}

\* The tag a receiver supplies that did not get it from cf_gcm_encrypt.
TagBytes(n) == Bytes(61, 0, n)

\* Bits of a byte the channel may flip, and the content of the receiver's
\* output buffer before the call.
FlipBits == {0, 7}

OutFills == {0, 170}

\* What an uninitialised local holds.
Stack16 == <<204,204,204,204,204,204,204,204,204,204,204,204,204,204,204,204>>

Indet == Stack16[1]

StackGhash ==
    [ H |-> Stack16, Y |-> Stack16, buffer |-> Stack16, buffer_used |-> Indet,
      len_aad |-> Indet, len_cipher |-> Indet, state |-> Indet,
      gf128_mul |-> "indeterminate" ]

StackCtr ==
    [ prp |-> "indeterminate", nonce |-> Stack16, keymat |-> Stack16, nkeymat |-> Indet,
      counter_offset |-> Indet, counter_width |-> Indet ]

RECURSIVE Fill(_, _)
Fill(b, n) == IF n = 0 THEN <<>> ELSE <<b>> \o Fill(b, n - 1)

\* The locals of cf_gcm_encrypt / cf_gcm_decrypt on entry: H = { 0 }, the
\* rest not yet initialised.  ghn is the ghash_ctx of the else branch that
\* hashes a nonce that is not 12 bytes long.
GcmLocals ==
    [ fn |-> "gcm", H |-> Zero16, Y0 |-> Stack16,
      ghn |-> [ created |-> FALSE, ctx |-> StackGhash ],
      gh |-> StackGhash, e_Y0 |-> Stack16, ctr |-> StackCtr,
      full_tag |-> Stack16, err |-> Indet ]

NoObs == [ pre |-> <<>>, wrote |-> FALSE, tagEq |-> "unknown", macIn |-> <<>>, ks |-> <<>> ]

NoWire ==
    [ plain |-> <<>>, header |-> <<>>, cipher |-> <<>>, tag |-> <<>>,
      sentHeader |-> <<>>, sentCipher |-> <<>>, sentTag |-> <<>>, flip |-> "none" ]

MacIdle ==
    /\ eng = [ kind |-> "none", key |-> 0 ]
    /\ gh = ZeroGhash
    /\ poly = ZeroPoly
    /\ fed = [ aad |-> <<>>, cipher |-> <<>> ]
    /\ log = <<>>
    /\ macOut = <<>>
    /\ trap = FALSE
    /\ ev = [ op |-> "none", pre |-> 0, ok |-> TRUE ]
    /\ seen = {}

\* A caller enters cf_gcm_encrypt.
InitGcm ==
    /\ \E k \in 0..MaxKey, nn \in GcmNonceLens, nh \in DataLens, np \in DataLens,
          nt \in GcmTagLens :
          /\ call = [ fn |-> "cf_gcm_encrypt", key |-> k,
                      nonce |-> NonceBytes(nn),
                      header |-> HeaderBytes(nh),
                      input |-> PlainBytes(np),
                      ntag |-> nt ]
          /\ bufs = [ output |-> Zeros(np), tag |-> Zeros(nt) ]
    /\ pc = "ge_H"
    /\ loc = GcmLocals
    /\ ret = 0
    /\ wire = NoWire
    /\ obs = NoObs
    /\ MacIdle

\* A caller enters cf_gcm_decrypt with a ciphertext and a tag of its own,
\* of any of the tag lengths.
InitGcmDecrypt ==
    /\ \E k \in 0..MaxKey, nn \in GcmNonceLens, nh \in DataLens, nc \in DataLens,
          nt \in GcmTagLens, fill \in OutFills :
          /\ call = [ fn |-> "cf_gcm_decrypt", key |-> k,
                      nonce |-> NonceBytes(nn),
                      header |-> HeaderBytes(nh),
                      input |-> PlainBytes(nc),
                      ntag |-> nt ]
          /\ bufs = [ output |-> Fill(fill, nc), tag |-> TagBytes(nt) ]
          /\ obs = [NoObs EXCEPT !.pre = Fill(fill, nc)]
          /\ wire = [NoWire EXCEPT !.header = HeaderBytes(nh), !.cipher = PlainBytes(nc),
                                   !.tag = TagBytes(nt), !.flip = "forged"]
    /\ pc = "gd_H"
    /\ loc = GcmLocals
    /\ ret = 0
    /\ MacIdle

\* The call stops at a failed assertion.
Abort == pc' = "abort" /\ UNCHANGED <<call, bufs, loc, ret, wire, obs, macVars>>

\* gcm_Y0 hashing the nonce as associated data.
gcm_Y0_NonceAsAad(H, nonce) ==
    IF Len(nonce) = 12
    THEN [ ok |-> TRUE, Y0 |-> nonce \o <<0, 0, 0, 1>>,
           ghn |-> [ created |-> FALSE, ctx |-> StackGhash ] ]
    ELSE LET g0 == ghash_init(H)
             g1 == ghash_add_aad(g0, nonce)
         IN [ ok |-> ghash_add_aad_assert(g0) /\ ghash_final_assert(g1),
              Y0 |-> ghash_final_out(g1),
              ghn |-> [ created |-> TRUE, ctx |-> ghash_final(g1) ] ]

\* Y0 from the nonce (gcm.c 146-156, and again 211-221): the value is
\* [ok (no assertion failed), Y0, ghn].
gcm_Y0(H, nonce) ==
    IF Len(nonce) = 12
    THEN [ ok |-> TRUE, Y0 |-> nonce \o <<0, 0, 0, 1>>,
           ghn |-> [ created |-> FALSE, ctx |-> StackGhash ] ]
    ELSE LET g0 == ghash_init(H)
             g1 == ghash_add_cipher(g0, nonce)
         IN [ ok |-> ghash_add_cipher_assert(g0) /\ ghash_final_assert(g1),
              Y0 |-> ghash_final_out(g1),
              ghn |-> [ created |-> TRUE, ctx |-> ghash_final(g1) ] ]

\* H = E_K(0^128)
GcmSubkey(at, next) ==
    /\ pc = at
    /\ loc' = [loc EXCEPT !.H = prp_encrypt(call.key, loc.H)]
    /\ pc' = next
    /\ UNCHANGED <<call, bufs, ret, wire, obs, macVars>>

GcmY0(at, next) ==
    /\ pc = at
    /\ LET y == gcm_Y0(loc.H, call.nonce)
       IN IF y.ok
          THEN /\ loc' = [loc EXCEPT !.Y0 = y.Y0, !.ghn = y.ghn]
               /\ pc' = next
               /\ UNCHANGED <<call, bufs, ret, wire, obs, macVars>>
          ELSE Abort

\* ghash_init(&gh, H); ghash_add_aad(&gh, header, nheader);
GcmAad(at, next) ==
    /\ pc = at
    /\ LET g == ghash_init(loc.H)
       IN IF ghash_add_aad_assert(g)
          THEN /\ loc' = [loc EXCEPT !.gh = ghash_add_aad(g, call.header)]
               /\ pc' = next
               /\ UNCHANGED <<call, bufs, ret, wire, obs, macVars>>
          ELSE Abort

\* e_Y0 = { 0 }; cf_ctr_init; cf_ctr_custom_counter(&ctr, 12, 4);
\* cf_ctr_cipher(&ctr, e_Y0, e_Y0, sizeof e_Y0): the value is what
\* cf_ctr_cipher returns.
gcm_tag_offset(k, Y0) ==
    cf_ctr_cipher(cf_ctr_custom_counter(cf_ctr_init(Y0), 12, 4), k, Zero16)

GcmCtr(at, next) ==
    /\ pc = at
    /\ LET c == gcm_tag_offset(call.key, loc.Y0)
       IN /\ loc' = [loc EXCEPT !.e_Y0 = c.out, !.ctr = c.ctr]
          /\ obs' = [obs EXCEPT !.ks = @ \o [ i \in 1..Len(c.used) |->
                                                 [ use |-> "mask", block |-> c.used[i] ] ]]
    /\ pc' = next
    /\ UNCHANGED <<call, bufs, ret, wire, macVars>>

\* The four steps as cf_gcm_encrypt takes them.
GcmEncSubkey == GcmSubkey("ge_H", "ge_Y0")

GcmEncY0 == GcmY0("ge_Y0", "ge_aad")

GcmEncAad == GcmAad("ge_aad", "ge_ctr")

GcmEncCtr == GcmCtr("ge_ctr", "ge_cipher")

\* cf_ctr_cipher(&ctr, plain, cipher, nplain);
GcmEncCipher ==
    /\ pc = "ge_cipher"
    /\ LET c == cf_ctr_cipher(loc.ctr, call.key, call.input)
       IN /\ loc' = [loc EXCEPT !.ctr = c.ctr]
          /\ bufs' = [bufs EXCEPT !.output = c.out]
          /\ obs' = [obs EXCEPT !.wrote = (Len(call.input) > 0),
                                !.ks = @ \o [ i \in 1..Len(c.used) |->
                                                 [ use |-> "payload", block |-> c.used[i] ] ]]
    /\ pc' = "ge_hash"
    /\ UNCHANGED <<call, ret, wire, macVars>>

\* ghash_add_cipher(&gh, cipher, nplain);
GcmEncHash ==
    /\ pc = "ge_hash"
    /\ IF ghash_add_cipher_assert(loc.gh)
       THEN /\ loc' = [loc EXCEPT !.gh = ghash_add_cipher(loc.gh, bufs.output)]
            /\ obs' = [obs EXCEPT !.macIn = bufs.output]
            /\ pc' = "ge_final"
            /\ UNCHANGED <<call, bufs, ret, wire, macVars>>
       ELSE Abort

\* full_tag = { 0 }; ghash_final(&gh, full_tag);
GcmEncFinal ==
    /\ pc = "ge_final"
    /\ IF ghash_final_assert(loc.gh)
       THEN /\ loc' = [loc EXCEPT !.gh = ghash_final(loc.gh),
                                  !.full_tag = ghash_final_out(loc.gh)]
            /\ pc' = "ge_tag"
            /\ UNCHANGED <<call, bufs, ret, wire, obs, macVars>>
       ELSE Abort

\* The assertion with the lower limit off by one.
gcm_ntag_assert_FromOne(ntag) == ntag > 0 /\ ntag <= 16

\* assert(ntag > 1 && ntag <= 16)
gcm_ntag_assert(ntag) == ntag > 1 /\ ntag <= 16

\* GcmEncTag handing out the last ntag bytes of the masked tag.
GcmEncTag_Tail ==
    /\ pc = "ge_tag"
    /\ IF gcm_ntag_assert(call.ntag)
       THEN /\ bufs' = [bufs EXCEPT !.tag = Slice(xor_bb(loc.full_tag, loc.e_Y0, BLOCK),
                                                  BLOCK - call.ntag + 1, BLOCK)]
            /\ pc' = "ge_clean"
            /\ UNCHANGED <<call, loc, ret, wire, obs, macVars>>
       ELSE Abort

\* xor_bb(tag, full_tag, e_Y0, ntag);
GcmEncTag ==
    /\ pc = "ge_tag"
    /\ IF gcm_ntag_assert(call.ntag)
       THEN /\ bufs' = [bufs EXCEPT !.tag = xor_bb(loc.full_tag, loc.e_Y0, call.ntag)
                                               \o Slice(@, call.ntag + 1, Len(@))]
            /\ pc' = "ge_clean"
            /\ UNCHANGED <<call, loc, ret, wire, obs, macVars>>
       ELSE Abort

\* The six mem_clean calls that end cf_gcm_encrypt and cf_gcm_decrypt.
gcm_clean(l) ==
    [ l EXCEPT !.H = mem_clean(@, 16),
               !.Y0 = mem_clean(@, 16),
               !.e_Y0 = mem_clean(@, 16),
               !.full_tag = mem_clean(@, 16),
               !.gh = ZeroGhash,
               !.ctr = ZeroCtr ]

\* cf_gcm_encrypt cleans up and returns; ciphertext, tag and associated
\* data are sent.
GcmEncClean ==
    /\ pc = "ge_clean"
    /\ loc' = gcm_clean(loc)
    /\ wire' = [ plain |-> call.input, header |-> call.header,
                 cipher |-> bufs.output, tag |-> bufs.tag,
                 sentHeader |-> call.header, sentCipher |-> bufs.output,
                 sentTag |-> bufs.tag, flip |-> "none" ]
    /\ pc' = "sent"
    /\ UNCHANGED <<call, bufs, ret, obs, macVars>>

\* One bit of s flipped.
FlipBit(s, pos, bit) == [ s EXCEPT ![pos] = Xor8(@, 2^bit) ]

\* The channel flips one bit of the ciphertext, the tag or the associated
\* data, in the first or the last byte.
Tamper ==
    /\ pc = "sent"
    /\ wire.flip = "none"
    /\ \E target \in {"cipher", "tag", "header"}, last \in BOOLEAN, bit \in FlipBits :
          /\ Len(wire[target]) > 0
          /\ wire' = [wire EXCEPT ![target] = FlipBit(@, IF last THEN Len(@) ELSE 1, bit),
                                  !.flip = target]
    /\ UNCHANGED <<pc, call, bufs, loc, ret, obs, macVars>>

\* The receiver enters cf_gcm_decrypt with what arrived, the key, the nonce
\* and the tag length of the sender, and an output buffer it filled.
GcmDecCall ==
    /\ pc = "sent"
    /\ call.fn = "cf_gcm_encrypt"
    /\ call' = [call EXCEPT !.fn = "cf_gcm_decrypt", !.header = wire.header,
                            !.input = wire.cipher]
    /\ \E fill \in OutFills :
          /\ bufs' = [ output |-> Fill(fill, Len(wire.cipher)), tag |-> wire.tag ]
          /\ obs' = [NoObs EXCEPT !.pre = Fill(fill, Len(wire.cipher))]
    /\ loc' = GcmLocals
    /\ pc' = "gd_H"
    /\ UNCHANGED <<ret, wire, macVars>>

\* The four steps as cf_gcm_decrypt takes them.
GcmDecSubkey == GcmSubkey("gd_H", "gd_Y0")

GcmDecY0 == GcmY0("gd_Y0", "gd_aad")

GcmDecAad == GcmAad("gd_aad", "gd_ctr")

GcmDecCtr == GcmCtr("gd_ctr", "gd_hash")

\* ghash_add_cipher(&gh, cipher, ncipher);
GcmDecHash ==
    /\ pc = "gd_hash"
    /\ IF ghash_add_cipher_assert(loc.gh)
       THEN /\ loc' = [loc EXCEPT !.gh = ghash_add_cipher(loc.gh, call.input)]
            /\ obs' = [obs EXCEPT !.macIn = call.input]
            /\ pc' = "gd_final"
            /\ UNCHANGED <<call, bufs, ret, wire, macVars>>
       ELSE Abort

\* uint8_t full_tag[16]; ghash_final(&gh, full_tag);
GcmDecFinal ==
    /\ pc = "gd_final"
    /\ IF ghash_final_assert(loc.gh)
       THEN /\ loc' = [loc EXCEPT !.gh = ghash_final(loc.gh),
                                  !.full_tag = ghash_final_out(loc.gh)]
            /\ pc' = "gd_tag"
            /\ UNCHANGED <<call, bufs, ret, wire, obs, macVars>>
       ELSE Abort

\* assert(ntag > 1 && ntag <= 16); xor_bb(full_tag, full_tag, e_Y0, ntag);
GcmDecTag ==
    /\ pc = "gd_tag"
    /\ IF gcm_ntag_assert(call.ntag)
       THEN /\ loc' = [loc EXCEPT !.full_tag = xor_bb(@, loc.e_Y0, call.ntag)
                                                   \o Slice(@, call.ntag + 1, Len(@))]
            /\ pc' = "gd_cmp"
            /\ UNCHANGED <<call, bufs, ret, wire, obs, macVars>>
       ELSE Abort

\* GcmDecCmp without the branch to x_err.
GcmDecCmp_NoBranch ==
    /\ pc = "gd_cmp"
    /\ loc' = [loc EXCEPT !.err = 1]
    /\ pc' = "gd_plain"
    /\ obs' = [obs EXCEPT !.tagEq = IF mem_eq(loc.full_tag, bufs.tag, call.ntag) = 0
                                    THEN "differ" ELSE "equal"]
    /\ UNCHANGED <<call, bufs, ret, wire, macVars>>

\* int err = 1; if (!mem_eq(full_tag, tag, ntag)) goto x_err;
GcmDecCmp ==
    /\ pc = "gd_cmp"
    /\ loc' = [loc EXCEPT !.err = 1]
    /\ IF mem_eq(loc.full_tag, bufs.tag, call.ntag) = 0
       THEN /\ pc' = "gd_clean"
            /\ obs' = [obs EXCEPT !.tagEq = "differ"]
       ELSE /\ pc' = "gd_plain"
            /\ obs' = [obs EXCEPT !.tagEq = "equal"]
    /\ UNCHANGED <<call, bufs, ret, wire, macVars>>

\* cf_ctr_cipher(&ctr, cipher, plain, ncipher); err = 0;
GcmDecPlain ==
    /\ pc = "gd_plain"
    /\ LET c == cf_ctr_cipher(loc.ctr, call.key, call.input)
       IN /\ loc' = [loc EXCEPT !.ctr = c.ctr, !.err = 0]
          /\ bufs' = [bufs EXCEPT !.output = c.out]
          /\ obs' = [obs EXCEPT !.wrote = (Len(call.input) > 0),
                                !.ks = @ \o [ i \in 1..Len(c.used) |->
                                                 [ use |-> "payload", block |-> c.used[i] ] ]]
    /\ pc' = "gd_clean"
    /\ UNCHANGED <<call, ret, wire, macVars>>

\* x_err: the six mem_clean calls; return err;
GcmDecClean ==
    /\ pc = "gd_clean"
    /\ loc' = gcm_clean(loc)
    /\ ret' = loc.err
    /\ pc' = "done"
    /\ UNCHANGED <<call, bufs, wire, obs, macVars>>

GcmEncrypt ==
    \/ GcmEncSubkey \/ GcmEncY0 \/ GcmEncAad \/ GcmEncCtr \/ GcmEncCipher
    \/ GcmEncHash \/ GcmEncFinal \/ GcmEncTag \/ GcmEncClean

GcmDecrypt ==
    \/ GcmDecCall \/ GcmDecSubkey \/ GcmDecY0 \/ GcmDecAad \/ GcmDecCtr \/ GcmDecHash
    \/ GcmDecFinal \/ GcmDecTag \/ GcmDecCmp \/ GcmDecPlain \/ GcmDecClean

(***************************************************************************)
(* ChaCha20-Poly1305 (chacha20poly1305.c).  The ChaCha20 keystream         *)
(* generator is an external capability: a context holds the key, the       *)
(* 16-byte counter-and-nonce block and the number of unused bytes of the   *)
(* current 64-byte keystream block.                                        *)
(***************************************************************************)
ENCRYPT == 1
DECRYPT == 0
SUCCESS == 0
FAILURE == 1

\* Bytes of one ChaCha20 keystream block.
CHACHA_BLOCK == 64

\* The 32-byte key number k.
ChaChaKey(k) == [ i \in 1..32 |-> (1 + 37 * k + 11 * i) % 256 ]

Zero32 == Zero16 \o Zero16

ZeroChaCha ==
    [ key |-> Zero32, nonce |-> Zero16, nblock |-> 0, ncounter |-> 0 ]

StackChaCha ==
    [ key |-> Stack16 \o Stack16, nonce |-> Stack16, nblock |-> Indet, ncounter |-> Indet ]

cf_chacha20_init_custom(key, nonce, ncounter) ==
    [ key |-> key, nonce |-> nonce, nblock |-> 0, ncounter |-> ncounter ]

\* Keystream byte off of block number blk, for a key and the nonce part
\* (bytes 5..16) of the counter-and-nonce block.
chacha20_keystream(key, nonce, blk, off) ==
    (key[1] + 3 * key[32] + nonce[5] + 5 * nonce[16]
       + 31 * (CHACHA_BLOCK * blk + off) + 7 * ((CHACHA_BLOCK * blk + off) \div 3)) % 256

\* The little-endian block counter in the first ncounter bytes.
chacha20_counter(ctx) == ctx.nonce[1] + 256 * ctx.nonce[2]

\* The little-endian counter in bytes lo..hi of v (1-based) plus one, wrapping.
RECURSIVE incr_le(_, _, _)
incr_le(v, lo, hi) ==
    IF hi < lo THEN v
    ELSE IF v[lo] = 255 THEN incr_le([v EXCEPT ![lo] = 0], lo + 1, hi)
    ELSE [v EXCEPT ![lo] = @ + 1]

\* Position in the keystream of the next byte the context hands out.
chacha20_pos(ctx) ==
    IF ctx.nblock = 0 THEN CHACHA_BLOCK * chacha20_counter(ctx)
    ELSE CHACHA_BLOCK * chacha20_counter(ctx) - ctx.nblock

\* cf_chacha20_cipher(ctx, input, output, bytes): the value is [ctx, out].
RECURSIVE cf_chacha20_cipher_loop(_, _, _, _)
cf_chacha20_cipher_loop(ctx, input, i, out) ==
    IF i > Len(input) THEN [ ctx |-> ctx, out |-> out ]
    ELSE LET c == IF ctx.nblock = 0
                  THEN [ctx EXCEPT !.nblock = CHACHA_BLOCK,
                                   !.nonce = incr_le(@, 1, ctx.ncounter)]
                  ELSE ctx
             ksb == chacha20_keystream(c.key, c.nonce, chacha20_counter(c) - 1,
                                       CHACHA_BLOCK - c.nblock)
         IN cf_chacha20_cipher_loop([c EXCEPT !.nblock = @ - 1], input, i + 1,
                                    Append(out, Xor8(input[i], ksb)))

cf_chacha20_cipher(ctx, input) == cf_chacha20_cipher_loop(ctx, input, 1, <<>>)

\* PADLEN with the mask 0x7 in place of 0xf.
PADLEN_Mask7(x) == (16 - (x % 8)) % 8

\* #define PADLEN(x) ((16 - ((x) & 0xf)) & 0xf)
PADLEN(x) == (16 - (x % 16)) % 16

\* The locals of process on entry.  ourtag is the copy of the tag that
\* cf_chacha20poly1305_decrypt hands to process.
ProcLocals ==
    [ fn |-> "process", mode |-> ENCRYPT, fullnonce |-> Stack16,
      polykey |-> Stack16 \o Stack16, chacha |-> StackChaCha,
      poly |-> [ h |-> [ i \in 1..17 |-> Indet ], r |-> [ i \in 1..17 |-> Indet ],
                 s |-> Stack16, partial |-> Stack16, npartial |-> Indet ],
      padbuf |-> Stack16, checktag |-> Stack16, ourtag |-> Stack16 ]

\* A caller enters cf_chacha20poly1305_encrypt.
InitChaCha ==
    /\ \E k \in 0..MaxKey, nh \in ChaChaLens, np \in ChaChaLens :
          /\ call = [ fn |-> "cf_chacha20poly1305_encrypt", key |-> k,
                      nonce |-> NonceBytes(12),
                      header |-> HeaderBytes(nh),
                      input |-> PlainBytes(np),
                      ntag |-> BLOCK ]
          /\ bufs = [ output |-> Zeros(np), tag |-> Zero16 ]
    /\ pc = "p_key"
    /\ loc = ProcLocals
    /\ ret = 0
    /\ wire = NoWire
    /\ obs = NoObs
    /\ MacIdle

\* The Poly1305 context after one more cf_poly1305_update, and the bytes
\* fed to the MAC so far.
ProcUpdate(l, o, data) ==
    [ loc |-> [l EXCEPT !.poly = cf_poly1305_update(@, data)],
      obs |-> [o EXCEPT !.macIn = @ \o data] ]

\* fullnonce, polykey = { 0 }, cf_chacha20_init_custom, and the first 32
\* bytes of keystream into polykey.
ProcPolyKey ==
    /\ pc = "p_key"
    /\ LET fullnonce == <<0, 0, 0, 0>> \o call.nonce
           c == cf_chacha20_cipher(cf_chacha20_init_custom(ChaChaKey(call.key), fullnonce, 4),
                                   Zero32)
       IN /\ loc' = [loc EXCEPT !.fullnonce = fullnonce, !.polykey = c.out, !.chacha = c.ctx]
          /\ obs' = [obs EXCEPT !.ks = Append(@, [ use |-> "polykey", pos |-> 0,
                                                   n |-> Len(c.out) ])]
    /\ pc' = "p_init"
    /\ UNCHANGED <<call, bufs, ret, wire, macVars>>

\* cf_poly1305_init(&poly, polykey, polykey + 16); mem_clean(polykey, ...);
ProcPolyInit ==
    /\ pc = "p_init"
    /\ loc' = [loc EXCEPT !.poly = cf_poly1305_init(Slice(loc.polykey, 1, 16),
                                                    Slice(loc.polykey, 17, 32)),
                          !.polykey = mem_clean(@, 32)]
    /\ pc' = "p_discard"
    /\ UNCHANGED <<call, bufs, ret, wire, obs, macVars>>

\* ProcDiscard leaving the keystream where it is.
ProcDiscard_Skip ==
    /\ pc = "p_discard"
    /\ loc' = [loc EXCEPT !.polykey = mem_clean(@, 32)]
    /\ obs' = [obs EXCEPT !.ks = Append(@, [ use |-> "discard",
                                             pos |-> chacha20_pos(loc.chacha), n |-> 0 ])]
    /\ pc' = "p_aad"
    /\ UNCHANGED <<call, bufs, ret, wire, macVars>>

\* Discard next 32 bytes of chacha20 key stream.
ProcDiscard ==
    /\ pc = "p_discard"
    /\ LET c == cf_chacha20_cipher(loc.chacha, loc.polykey)
       IN /\ loc' = [loc EXCEPT !.chacha = c.ctx, !.polykey = mem_clean(c.out, 32)]
          /\ obs' = [obs EXCEPT !.ks = Append(@, [ use |-> "discard",
                                                   pos |-> chacha20_pos(loc.chacha),
                                                   n |-> Len(c.out) ])]
    /\ pc' = "p_aad"
    /\ UNCHANGED <<call, bufs, ret, wire, macVars>>

\* padbuf = { 0 }; AAD || pad(AAD)
ProcAad ==
    /\ pc = "p_aad"
    /\ LET l0 == [loc EXCEPT !.padbuf = Zero16]
           u1 == ProcUpdate(l0, obs, call.header)
           u2 == ProcUpdate(u1.loc, u1.obs, Slice(l0.padbuf, 1, PADLEN(Len(call.header))))
       IN loc' = u2.loc /\ obs' = u2.obs
    /\ pc' = "p_cipher"
    /\ UNCHANGED <<call, bufs, ret, wire, macVars>>

\* ProcCipher absorbing the input in both modes.
ProcCipher_MacPlaintext ==
    /\ pc = "p_cipher"
    /\ IF loc.mode = ENCRYPT
       THEN LET c == cf_chacha20_cipher(loc.chacha, call.input)
                u == ProcUpdate([loc EXCEPT !.chacha = c.ctx], obs, call.input)
            IN /\ bufs' = [bufs EXCEPT !.output = c.out]
               /\ loc' = u.loc
               /\ obs' = [u.obs EXCEPT !.wrote = (Len(call.input) > 0),
                                       !.ks = Append(@, [ use |-> "payload",
                                                          pos |-> chacha20_pos(loc.chacha),
                                                          n |-> Len(c.out) ])]
       ELSE LET u == ProcUpdate(loc, obs, call.input)
            IN loc' = u.loc /\ obs' = u.obs /\ bufs' = bufs
    /\ pc' = "p_pad"
    /\ UNCHANGED <<call, ret, wire, macVars>>

\* || cipher: encrypt first and absorb the output, or absorb the input.
ProcCipher ==
    /\ pc = "p_cipher"
    /\ IF loc.mode = ENCRYPT
       THEN LET c == cf_chacha20_cipher(loc.chacha, call.input)
                u == ProcUpdate([loc EXCEPT !.chacha = c.ctx], obs, c.out)
            IN /\ bufs' = [bufs EXCEPT !.output = c.out]
               /\ loc' = u.loc
               /\ obs' = [u.obs EXCEPT !.wrote = (Len(call.input) > 0),
                                       !.ks = Append(@, [ use |-> "payload",
                                                          pos |-> chacha20_pos(loc.chacha),
                                                          n |-> Len(c.out) ])]
       ELSE LET u == ProcUpdate(loc, obs, call.input)
            IN loc' = u.loc /\ obs' = u.obs /\ bufs' = bufs
    /\ pc' = "p_pad"
    /\ UNCHANGED <<call, ret, wire, macVars>>

\* ProcPad padding by the length of the associated data.
ProcPad_HeaderLen ==
    /\ pc = "p_pad"
    /\ LET u == ProcUpdate(loc, obs, Slice(loc.padbuf, 1, PADLEN(Len(call.header))))
       IN loc' = u.loc /\ obs' = u.obs
    /\ pc' = "p_len"
    /\ UNCHANGED <<call, bufs, ret, wire, macVars>>

\* || pad(cipher)
ProcPad ==
    /\ pc = "p_pad"
    /\ LET u == ProcUpdate(loc, obs, Slice(loc.padbuf, 1, PADLEN(Len(call.input))))
       IN loc' = u.loc /\ obs' = u.obs
    /\ pc' = "p_len"
    /\ UNCHANGED <<call, bufs, ret, wire, macVars>>

\* || len_64(aad) || len_64(cipher)
ProcLengths ==
    /\ pc = "p_len"
    /\ LET l0 == [loc EXCEPT !.padbuf = write64_le(Len(call.header))
                                           \o write64_le(Len(call.input))]
           u == ProcUpdate(l0, obs, l0.padbuf)
       IN loc' = u.loc /\ obs' = u.obs
    /\ pc' = "p_mac"
    /\ UNCHANGED <<call, bufs, ret, wire, macVars>>

\* mode == ENCRYPT: cf_poly1305_finish(&poly, tag); mem_clean(&chacha, ...);
\* return SUCCESS.  Ciphertext, tag and associated data are sent.
ProcEncFinish ==
    /\ pc = "p_mac"
    /\ loc.mode = ENCRYPT
    /\ bufs' = [bufs EXCEPT !.tag = cf_poly1305_finish_out(loc.poly)]
    /\ loc' = [loc EXCEPT !.poly = cf_poly1305_finish(@), !.chacha = ZeroChaCha]
    /\ ret' = SUCCESS
    /\ wire' = [ plain |-> call.input, header |-> call.header,
                 cipher |-> bufs.output, tag |-> cf_poly1305_finish_out(loc.poly),
                 sentHeader |-> call.header, sentCipher |-> bufs.output,
                 sentTag |-> cf_poly1305_finish_out(loc.poly), flip |-> "none" ]
    /\ pc' = "sent"
    /\ UNCHANGED <<call, obs, macVars>>

\* The receiver enters cf_chacha20poly1305_decrypt with what arrived and
\* an output buffer it filled: ourtag is the copy of the tag, and process
\* runs in mode DECRYPT.
ProcDecCall ==
    /\ pc = "sent"
    /\ call.fn = "cf_chacha20poly1305_encrypt"
    /\ call' = [call EXCEPT !.fn = "cf_chacha20poly1305_decrypt", !.header = wire.header,
                            !.input = wire.cipher]
    /\ \E fill \in OutFills :
          /\ bufs' = [ output |-> Fill(fill, Len(wire.cipher)), tag |-> wire.tag ]
          /\ obs' = [NoObs EXCEPT !.pre = Fill(fill, Len(wire.cipher))]
    /\ loc' = [ProcLocals EXCEPT !.mode = DECRYPT, !.ourtag = wire.tag]
    /\ pc' = "p_key"
    /\ UNCHANGED <<ret, wire, macVars>>

\* uint8_t checktag[16]; cf_poly1305_finish(&poly, checktag);
\* if (mem_eq(checktag, tag, sizeof checktag))
ProcCheck ==
    /\ pc = "p_mac"
    /\ loc.mode = DECRYPT
    /\ loc' = [loc EXCEPT !.checktag = cf_poly1305_finish_out(loc.poly),
                          !.poly = cf_poly1305_finish(@)]
    /\ IF mem_eq(cf_poly1305_finish_out(loc.poly), loc.ourtag, 16) = 1
       THEN pc' = "p_plain" /\ obs' = [obs EXCEPT !.tagEq = "equal"]
       ELSE pc' = "p_fail" /\ obs' = [obs EXCEPT !.tagEq = "differ"]
    /\ UNCHANGED <<call, bufs, ret, wire, macVars>>

\* cf_chacha20_cipher(&chacha, input, output, nbytes); the two mem_clean
\* calls; return SUCCESS;
ProcDecSuccess ==
    /\ pc = "p_plain"
    /\ LET c == cf_chacha20_cipher(loc.chacha, call.input)
       IN /\ bufs' = [bufs EXCEPT !.output = c.out]
          /\ obs' = [obs EXCEPT !.wrote = (Len(call.input) > 0),
                                !.ks = Append(@, [ use |-> "payload",
                                                   pos |-> chacha20_pos(loc.chacha),
                                                   n |-> Len(c.out) ])]
    /\ loc' = [loc EXCEPT !.chacha = ZeroChaCha, !.checktag = mem_clean(@, 16)]
    /\ ret' = SUCCESS
    /\ pc' = "done"
    /\ UNCHANGED <<call, wire, macVars>>

\* ProcDecFailure without mem_clean(output, nbytes).
ProcDecFailure_KeepOutput ==
    /\ pc = "p_fail"
    /\ loc' = [loc EXCEPT !.chacha = ZeroChaCha, !.checktag = mem_clean(@, 16)]
    /\ ret' = FAILURE
    /\ pc' = "done"
    /\ UNCHANGED <<call, bufs, wire, obs, macVars>>

\* mem_clean(output, nbytes); the two mem_clean calls; return FAILURE;
ProcDecFailure ==
    /\ pc = "p_fail"
    /\ bufs' = [bufs EXCEPT !.output = mem_clean(@, Len(call.input))]
    /\ loc' = [loc EXCEPT !.chacha = ZeroChaCha, !.checktag = mem_clean(@, 16)]
    /\ ret' = FAILURE
    /\ pc' = "done"
    /\ UNCHANGED <<call, wire, obs, macVars>>

Process ==
    \/ ProcPolyKey \/ ProcPolyInit \/ ProcDiscard \/ ProcAad \/ ProcCipher \/ ProcPad
    \/ ProcLengths \/ ProcEncFinish \/ ProcDecCall \/ ProcCheck \/ ProcDecSuccess
    \/ ProcDecFailure

Init == InitGcm \/ InitGcmDecrypt \/ InitChaCha

Next == GcmEncrypt \/ Process \/ Tamper \/ GcmDecrypt

Spec == Init /\ [][Next]_vars

(***************************************************************************)
(* One MAC context driven by an arbitrary caller: any sequence of          *)
(* ghash_add_aad / ghash_add_cipher / ghash_final calls after ghash_init,  *)
(* or of cf_poly1305_update / cf_poly1305_finish calls after               *)
(* cf_poly1305_init.  The bytes of each call are the next bytes of a       *)
(* fixed stream, cut at a boundary the caller chooses.                     *)
(***************************************************************************)
\* The bytes a caller feeds as associated data and as ciphertext.
AadBytes(from, n) == Bytes(7, from, n)

CipherBytes(from, n) == Bytes(201, from, n)

\* Sizes of the chunks a caller passes in one call.
ChunkLens == {0, 1, BLOCK - 1, BLOCK, BLOCK + 1, 2 * BLOCK}

\* The GHASH subkeys H and the Poly1305 key halves of the model.
MacH(k) == << (66 + 61 * k) % 256, (128 * (k + 1)) % 256,
              0, 0, 0, 0, 0, 0, 0, 0, 0, 0, 0, 0, 0, 0 >>

MacR(k) == [ i \in 1..16 |-> (255 - 40 * k + 31 * i) % 256 ]

MacS(k) == [ i \in 1..16 |-> (3 + 90 * k + 77 * i) % 256 ]

NoEvent == [ op |-> "none", pre |-> 0, ok |-> TRUE ]

InitMac ==
    /\ eng \in [ kind : {"ghash", "poly"}, key : 0..MaxMacKey ]
    /\ gh = IF eng.kind = "ghash" THEN ghash_init(MacH(eng.key)) ELSE ZeroGhash
    /\ poly = IF eng.kind = "poly"
              THEN cf_poly1305_init(MacR(eng.key), MacS(eng.key)) ELSE ZeroPoly
    /\ fed = [ aad |-> <<>>, cipher |-> <<>> ]
    /\ log = <<>>
    /\ macOut = <<>>
    /\ trap = FALSE
    /\ ev = NoEvent
    /\ seen = {}
    /\ pc = "idle"
    /\ call = [ fn |-> "none" ]
    /\ bufs = [ output |-> <<>>, tag |-> <<>> ]
    /\ loc = [ fn |-> "none" ]
    /\ ret = 0
    /\ wire = [ flip |-> "none" ]
    /\ obs = [ wrote |-> FALSE ]

\* An assertion fails: the process is aborted where it stands.
MacAbort(op) ==
    /\ trap' = TRUE
    /\ ev' = [ op |-> op, pre |-> gh.state, ok |-> FALSE ]
    /\ UNCHANGED <<eng, gh, poly, fed, log, macOut, seen, aeadVars>>

GhashAddAad ==
    /\ eng.kind = "ghash" /\ ~trap
    /\ \E n \in ChunkLens :
          /\ Len(fed.aad) + n <= MaxAad
          /\ LET buf == AadBytes(Len(fed.aad), n)
             IN IF ghash_add_aad_assert(gh)
                THEN /\ gh' = ghash_add_aad(gh, buf)
                     /\ fed' = [fed EXCEPT !.aad = @ \o buf]
                     /\ log' = log \o ghash_add_blocks(gh, buf)
                     /\ ev' = [ op |-> "add_aad", pre |-> gh.state, ok |-> TRUE ]
                     /\ seen' = seen \cup {"add_aad"}
                     /\ UNCHANGED <<eng, poly, macOut, trap, aeadVars>>
                ELSE MacAbort("add_aad")

GhashAddCipher ==
    /\ eng.kind = "ghash" /\ ~trap
    /\ \E n \in ChunkLens :
          /\ Len(fed.cipher) + n <= MaxFeed
          /\ LET buf == CipherBytes(Len(fed.cipher), n)
             IN IF ghash_add_cipher_assert(gh)
                THEN /\ gh' = ghash_add_cipher(gh, buf)
                     /\ fed' = [fed EXCEPT !.cipher = @ \o buf]
                     /\ log' = log \o (IF gh.state = STATE_AAD
                                        THEN ghash_pad_blocks(gh) ELSE <<>>)
                                   \o ghash_add_blocks(ghash_add_cipher_enter(gh), buf)
                     /\ ev' = [ op |-> "add_cipher", pre |-> gh.state, ok |-> TRUE ]
                     /\ seen' = seen \cup {"add_cipher"}
                     /\ UNCHANGED <<eng, poly, macOut, trap, aeadVars>>
                ELSE MacAbort("add_cipher")

GhashFinal ==
    /\ eng.kind = "ghash" /\ ~trap
    /\ Len(macOut) < MaxFinal
    /\ IF ghash_final_assert(gh)
       THEN /\ gh' = ghash_final(gh)
            /\ macOut' = Append(macOut, ghash_final_out(gh))
            /\ log' = log \o ghash_final_blocks(gh)
            /\ ev' = [ op |-> "final", pre |-> gh.state, ok |-> TRUE ]
            /\ seen' = seen \cup {"final"}
            /\ UNCHANGED <<eng, poly, fed, trap, aeadVars>>
       ELSE MacAbort("final")

PolyUpdate ==
    /\ eng.kind = "poly" /\ ~trap
    /\ macOut = <<>>
    /\ \E n \in ChunkLens :
          /\ Len(fed.cipher) + n <= MaxFeed
          /\ LET buf == CipherBytes(Len(fed.cipher), n)
             IN /\ poly' = cf_poly1305_update(poly, buf)
                /\ fed' = [fed EXCEPT !.cipher = @ \o buf]
                /\ log' = log \o cf_poly1305_update_blocks(poly, buf)
                /\ ev' = [ op |-> "update", pre |-> 0, ok |-> TRUE ]
                /\ seen' = seen \cup {"update"}
                /\ UNCHANGED <<eng, gh, macOut, trap, aeadVars>>

PolyFinish ==
    /\ eng.kind = "poly" /\ ~trap
    /\ Len(macOut) < MaxFinal
    /\ poly' = cf_poly1305_finish(poly)
    /\ macOut' = Append(macOut, cf_poly1305_finish_out(poly))
    /\ ev' = [ op |-> "finish", pre |-> poly.npartial, ok |-> TRUE ]
    /\ seen' = seen \cup {"finish"}
    /\ UNCHANGED <<eng, gh, fed, log, trap, aeadVars>>

NextMac ==
    \/ GhashAddAad
    \/ GhashAddCipher
    \/ GhashFinal
    \/ PolyUpdate
    \/ PolyFinish

SpecMac == InitMac /\ [][NextMac]_vars

(***************************************************************************)
(* Poly1305 limb arithmetic: one cf_poly1305 under keys and data that      *)
(* reach the ends of the limb ranges.  Here log holds the 17-limb blocks c *)
(* that poly1305_block was given, and ev the last call: the context it was *)
(* entered with and the bytes it was given.                                *)
(***************************************************************************)
MaxPolyKey == 3

MaxPolyFeed == 48

\* r of the key: all ones, the value 1, or mixed bytes.
PolyKeyR(k) ==
    IF k = 0 THEN Fill(255, 16)
    ELSE IF k = 1 THEN <<1>> \o Zeros(15)
    ELSE Bytes(17 * k, 0, 16)

\* s of the key: all ones or mixed bytes.
PolyKeyS(k) == IF k % 2 = 0 THEN Fill(255, 16) ELSE Bytes(45 + k, 0, 16)

\* The message: all ones, or mixed bytes.
PolyFills == {"ones", "mixed"}

PolyData(fill, from, n) == IF fill = "ones" THEN Fill(255, n) ELSE Bytes(119, from, n)

PolyChunkLens == {0, 1, BLOCK - 1, BLOCK, BLOCK + 1}

InitPoly ==
    /\ eng \in [ kind : {"limbs"}, key : 0..MaxPolyKey, fill : PolyFills ]
    /\ poly = cf_poly1305_init(PolyKeyR(eng.key), PolyKeyS(eng.key))
    /\ gh = ZeroGhash
    /\ fed = [ aad |-> <<>>, cipher |-> <<>> ]
    /\ log = <<>>
    /\ macOut = <<>>
    /\ trap = FALSE
    /\ ev = [ op |-> "init", pre |-> ZeroPoly, buf |-> <<>> ]
    /\ seen = {}
    /\ pc = "idle"
    /\ call = [ fn |-> "none" ]
    /\ bufs = [ output |-> <<>>, tag |-> <<>> ]
    /\ loc = [ fn |-> "none" ]
    /\ ret = 0
    /\ wire = [ flip |-> "none" ]
    /\ obs = [ wrote |-> FALSE ]

\* cf_poly1305_update(ctx, buf, nbytes)
PolyAbsorb ==
    /\ eng.kind = "limbs"
    /\ macOut = <<>>
    /\ \E n \in PolyChunkLens :
          /\ Len(fed.cipher) + n <= MaxPolyFeed
          /\ LET buf == PolyData(eng.fill, Len(fed.cipher), n)
                 blocks == cf_poly1305_update_blocks(poly, buf)
             IN /\ poly' = cf_poly1305_update(poly, buf)
                /\ fed' = [fed EXCEPT !.cipher = @ \o buf]
                /\ log' = log \o [ i \in 1..Len(blocks) |-> poly1305_whole_block_c(blocks[i]) ]
                /\ ev' = [ op |-> "update", pre |-> poly, buf |-> buf ]
    /\ seen' = seen \cup {"update"}
    /\ UNCHANGED <<eng, gh, macOut, trap, aeadVars>>

\* cf_poly1305_finish(ctx, out)
PolyFinalize ==
    /\ eng.kind = "limbs"
    /\ macOut = <<>>
    /\ poly' = cf_poly1305_finish(poly)
    /\ macOut' = << cf_poly1305_finish_out(poly) >>
    /\ log' = log \o (IF poly.npartial # 0 THEN << poly1305_last_block_c(poly) >> ELSE <<>>)
    /\ ev' = [ op |-> "finish", pre |-> poly, buf |-> <<>> ]
    /\ seen' = seen \cup {"finish"}
    /\ UNCHANGED <<eng, gh, fed, trap, aeadVars>>

NextPoly == PolyAbsorb \/ PolyFinalize

SpecPoly == InitPoly /\ [][NextPoly]_vars

(***************************************************************************)
(* mem_eq on its own: two arrays of MaxEq bytes each and a length up to    *)
(* MaxEq; ev holds the final diff and the number of loop steps taken.      *)
(***************************************************************************)
MaxEq == 3

\* Byte values of the arrays: differing in the lowest bit, in every bit.
EqBytes == {0, 1, 255}

InitEq ==
    /\ \E a \in [ 1..MaxEq -> EqBytes ], b \in [ 1..MaxEq -> EqBytes ], n \in 0..MaxEq :
          call = [ fn |-> "mem_eq", a |-> a, b |-> b, len |-> n ]
    /\ pc = "eq_call"
    /\ ret = 0
    /\ ev = [ op |-> "none", diff |-> 0, steps |-> 0 ]
    /\ eng = [ kind |-> "eq", key |-> 0 ]
    /\ gh = ZeroGhash
    /\ poly = ZeroPoly
    /\ fed = [ aad |-> <<>>, cipher |-> <<>> ]
    /\ log = <<>>
    /\ macOut = <<>>
    /\ trap = FALSE
    /\ seen = {}
    /\ bufs = [ output |-> <<>>, tag |-> <<>> ]
    /\ loc = [ fn |-> "none" ]
    /\ wire = [ flip |-> "none" ]
    /\ obs = [ wrote |-> FALSE ]

\* mem_eq(va, vb, len)
MemEq ==
    /\ pc = "eq_call"
    /\ ret' = mem_eq(call.a, call.b, call.len)
    /\ ev' = [ op |-> "mem_eq",
               diff |-> mem_eq_loop(call.a, call.b, call.len, 0).diff,
               steps |-> mem_eq_loop(call.a, call.b, call.len, 0).steps ]
    /\ pc' = "eq_done"
    /\ UNCHANGED <<call, eng, gh, poly, fed, log, macOut, trap, seen, bufs, loc, wire, obs>>

NextEq == MemEq

SpecEq == InitEq /\ [][NextEq]_vars

(***************************************************************************)
(* Properties of one MAC context.                                          *)
(***************************************************************************)
\* The order of the phases: AAD, then CIPHER, then INVALID.
PhaseRank(st) == IF st = STATE_AAD THEN 0 ELSE IF st = STATE_CIPHER THEN 1 ELSE 2

\* C3: on one context the phase only moves forward AAD -> CIPHER -> INVALID;
\* a ghash_add_aad call returns exactly when the phase is AAD and aborts by
\* assertion otherwise, so it aborts once any ghash_add_cipher call (even of
\* zero bytes) has returned; a ghash_add_cipher call returns exactly when
\* the phase is AAD or CIPHER; both abort after ghash_final.
C3_PhaseForward ==
    [][ eng.kind = "ghash" =>
          /\ PhaseRank(gh'.state) >= PhaseRank(gh.state)
          /\ ev'.op = "add_aad" => (ev'.ok <=> gh.state = STATE_AAD)
          /\ ev'.op = "add_cipher" => (ev'.ok <=> gh.state \in {STATE_AAD, STATE_CIPHER})
          /\ (ev'.op = "add_aad" /\ "add_cipher" \in seen) => (~ev'.ok /\ trap')
          /\ (ev'.op \in {"add_aad", "add_cipher"} /\ "final" \in seen)
                => (~ev'.ok /\ trap' /\ gh' = gh /\ log' = log)
          /\ ev'.op = "add_cipher" /\ ev'.ok => gh'.state = STATE_CIPHER
          /\ ev'.op = "final" /\ ev'.ok => gh'.state = STATE_INVALID
      ]_vars

\* C3 witness: ghash_add_aad has aborted after a ghash_add_cipher call that
\* passed zero bytes.
C3_Witness ==
    /\ eng.kind = "ghash" /\ trap
    /\ ev.op = "add_aad" /\ ~ev.ok
    /\ seen = {"add_cipher"} /\ fed.cipher = <<>>

\* C4: a ghash_final call on a context that is already INVALID aborts: it
\* hashes no further block and stores no output.
C4_SecondFinalAborts ==
    (eng.kind = "ghash" /\ ev.op = "final" /\ ev.pre = STATE_INVALID)
        => (~ev.ok /\ trap /\ Len(macOut) <= 1)

\* The context as the init call left it.
GhashStart == ghash_init(MacH(eng.key))

PolyStart == cf_poly1305_init(MacR(eng.key), MacS(eng.key))

\* The context after all associated data, then all ciphertext, accepted so
\* far has been passed in a single call each.
GhashOneShot ==
    IF "add_cipher" \in seen
    THEN ghash_add_cipher(ghash_add_aad(GhashStart, fed.aad), fed.cipher)
    ELSE ghash_add_aad(GhashStart, fed.aad)

\* The blocks those single calls hand to ghash_block.
GhashOneShotBlocks ==
    LET a == ghash_add_aad(GhashStart, fed.aad)
    IN ghash_add_blocks(GhashStart, fed.aad)
         \o (IF "add_cipher" \in seen
             THEN ghash_pad_blocks(a)
                    \o ghash_add_blocks(ghash_add_cipher_enter(a), fed.cipher)
             ELSE <<>>)

PolyOneShot == cf_poly1305_update(PolyStart, fed.cipher)

\* C9: however the input is cut into chunks, the blocks handed to the block
\* callback, the buffered remainder and the accumulator are those of a
\* single call over the concatenation, and so is the output of the first
\* finalize call.
C9_ChunkingInvariant ==
    /\ (eng.kind = "poly" /\ macOut = <<>>) =>
          /\ poly.h = PolyOneShot.h
          /\ poly.npartial = PolyOneShot.npartial
          /\ Slice(poly.partial, 1, poly.npartial)
                = Slice(PolyOneShot.partial, 1, poly.npartial)
          /\ poly.npartial = Len(fed.cipher) % BLOCK
          /\ log = cf_poly1305_update_blocks(PolyStart, fed.cipher)
    /\ (eng.kind = "poly" /\ macOut # <<>>) =>
          macOut[1] = cf_poly1305_finish_out(PolyOneShot)
    /\ (eng.kind = "ghash" /\ macOut = <<>>) =>
          /\ gh.Y = GhashOneShot.Y
          /\ gh.buffer_used = GhashOneShot.buffer_used
          /\ Slice(gh.buffer, 1, gh.buffer_used)
                = Slice(GhashOneShot.buffer, 1, gh.buffer_used)
          /\ gh.len_aad = Len(fed.aad) /\ gh.len_cipher = Len(fed.cipher)
          /\ log = GhashOneShotBlocks
    /\ (eng.kind = "ghash" /\ macOut # <<>>) =>
          macOut[1] = ghash_final_out(GhashOneShot)

\* C9 witness: two blocks and one byte have gone into Poly1305 in chunks
\* that end inside a block, so that the buffer holds, behind the one
\* buffered byte, bytes a single call would not have left there.
C9_Witness ==
    /\ eng.kind = "poly" /\ macOut = <<>>
    /\ Len(fed.cipher) = 2 * BLOCK + 1 /\ Len(log) = 2
    /\ poly.npartial = 1 /\ poly.partial # PolyOneShot.partial

(***************************************************************************)
(* Claims about the AEAD calls, checked under Spec.                        *)
(***************************************************************************)
GcmDecrypting == call.fn = "cf_gcm_decrypt"

GcmCall == call.fn \in {"cf_gcm_encrypt", "cf_gcm_decrypt"}

ChaChaDecrypting == call.fn = "cf_chacha20poly1305_decrypt"

ChaChaCall == call.fn \in {"cf_chacha20poly1305_encrypt", "cf_chacha20poly1305_decrypt"}

Returned == pc \in {"sent", "done"}

\* C1: in cf_gcm_decrypt the plaintext buffer is written only by the step
\* that follows a tag comparison that found the masked, truncated tag equal
\* to the supplied tag over all ntag bytes; when the tags differ the call
\* returns non-zero and the buffer is what it was before the call at every
\* point of the call.
C1_TagBeforePlaintext ==
    /\ [](GcmDecrypting /\ (obs.wrote \/ bufs.output # obs.pre)
            => obs.tagEq = "equal" /\ pc \in {"gd_clean", "done"})
    /\ [](GcmDecrypting /\ pc = "gd_plain"
            => Slice(loc.full_tag, 1, call.ntag) = Slice(bufs.tag, 1, call.ntag))
    /\ [](GcmDecrypting /\ pc \in {"gd_clean", "done"} /\ obs.tagEq = "differ"
            => ~obs.wrote /\ bufs.output = obs.pre)
    /\ [](GcmDecrypting /\ pc = "done" /\ obs.tagEq = "differ" => ret # 0)
    /\ [][GcmDecrypting /\ (bufs'.output # bufs.output \/ obs'.wrote # obs.wrote)
            => pc = "gd_plain"]_vars

C1_Witness ==
    /\ GcmDecrypting /\ pc = "done" /\ obs.tagEq = "differ" /\ ret # 0
    /\ Len(call.input) = MaxLen /\ bufs.output = obs.pre /\ wire.flip = "cipher"

\* The payload the ChaCha20-Poly1305 receiver is to get: byte i of the
\* input XOR keystream byte i of block 1.
ChaChaPayload ==
    [ i \in 1..Len(call.input) |->
        Xor8(call.input[i],
             chacha20_keystream(ChaChaKey(call.key), <<0, 0, 0, 0>> \o call.nonce, 1, i - 1)) ]

\* C2: in process with mode DECRYPT the output is written only after the
\* Poly1305 tag was finalized and compared; on mismatch the call returns
\* FAILURE with all nbytes of the output zero, on match it returns SUCCESS
\* with the output the keystream XOR of the ciphertext.
C2_VerifyThenDecrypt ==
    /\ [](ChaChaDecrypting /\ pc # "done" => ~obs.wrote /\ bufs.output = obs.pre)
    /\ [](ChaChaDecrypting /\ pc = "p_plain" => loc.checktag = loc.ourtag)
    /\ [](ChaChaDecrypting /\ pc = "p_fail" => loc.checktag # loc.ourtag)
    /\ [](ChaChaDecrypting /\ pc = "done" /\ obs.tagEq = "differ"
            => ret = FAILURE /\ ~obs.wrote /\ bufs.output = Zeros(Len(call.input)))
    /\ [](ChaChaDecrypting /\ pc = "done" /\ obs.tagEq = "equal"
            => ret = SUCCESS /\ bufs.output = ChaChaPayload)
    /\ [][ChaChaDecrypting /\ obs'.wrote # obs.wrote => pc = "p_plain"]_vars

C2_Witness ==
    /\ ChaChaDecrypting /\ pc = "done" /\ ret = FAILURE /\ Len(call.input) = MaxLen
    /\ obs.pre # Zeros(MaxLen) /\ bufs.output = Zeros(MaxLen)

\* C5: when cf_gcm_encrypt or cf_gcm_decrypt has returned, every GHASH
\* context the call created, the one that hashed a nonce not 12 bytes long
\* included, is zero, and so are H, Y0, e_Y0, the full tag and the counter
\* mode context.
C5_AllContextsZeroed ==
    GcmCall /\ Returned
        => /\ loc.H = Zero16 /\ loc.Y0 = Zero16 /\ loc.e_Y0 = Zero16
           /\ loc.full_tag = Zero16 /\ loc.ctr = ZeroCtr /\ loc.gh = ZeroGhash
           /\ (loc.ghn.created => loc.ghn.ctx = ZeroGhash)

\* C6: when process has returned, polykey, the whole cf_poly1305 and the
\* ChaCha20 context are zero, and so is checktag on the decrypt paths; the
\* cf_poly1305 is zero from cf_poly1305_finish on.
C6_ProcessWipesSecrets ==
    /\ ChaChaCall /\ Returned
         => /\ loc.polykey = Zero32 /\ loc.poly = ZeroPoly /\ loc.chacha = ZeroChaCha
            /\ (ChaChaDecrypting => loc.checktag = Zero16)
    /\ ChaChaCall /\ pc \in {"p_plain", "p_fail"} => loc.poly = ZeroPoly

C6_Witness ==
    /\ ChaChaDecrypting /\ pc = "done" /\ ret = FAILURE
    /\ loc.poly = ZeroPoly /\ loc.checktag = Zero16 /\ Len(call.input) = 1

\* C7: decrypting, with the same key, nonce and associated data, the
\* ciphertext and tag that encrypt produced returns success and the
\* original plaintext, for ChaCha20-Poly1305 and for GCM with any nonce
\* length and any tag length 2..16.
C7_RoundTrip ==
    pc = "done" /\ wire.flip = "none" => ret = 0 /\ bufs.output = wire.plain

C7_Witness ==
    /\ pc = "done" /\ wire.flip = "none" /\ GcmCall /\ Len(call.nonce) = BLOCK
    /\ call.ntag = 2 /\ Len(wire.plain) = MaxLen /\ bufs.output = wire.plain
    /\ bufs.output # obs.pre /\ wire.cipher # wire.plain

\* C8 as stated: after one bit of the ciphertext, the tag or the associated
\* data was flipped, decrypt reports failure and the output buffer, zeroed
\* before the call, is still zero.
C8_AnyBitFlipRejected ==
    pc = "done" /\ wire.flip # "none"
        => ret # 0 /\ (obs.pre = Zeros(Len(obs.pre)) => bufs.output = obs.pre)

\* C8, amended: after one bit of the tag was flipped decrypt reports
\* failure; so does cf_gcm_decrypt with a 16-byte tag and H # 0 after one
\* bit of the ciphertext or of the associated data was flipped; decrypt
\* accepts modified data only when the tag recomputed over it equals the
\* supplied tag in the compared bytes; whenever decrypt reports failure
\* the output holds no decrypted byte: cf_gcm_decrypt left it as it was
\* before the call, process zeroed it.
C8_BitFlipRejected ==
    pc = "done" /\ wire.flip # "none"
        => /\ wire.flip = "tag" => ret # 0
           /\ GcmCall /\ call.ntag = BLOCK /\ prp_encrypt(call.key, Zero16) # Zero16
                => ret # 0
           /\ ret = 0 => obs.tagEq = "equal"
           /\ ret # 0 => /\ ~obs.wrote
                         /\ GcmCall => bufs.output = obs.pre
                         /\ ChaChaCall => bufs.output = Zeros(Len(call.input))

C8_Witness ==
    /\ pc = "done" /\ wire.flip = "cipher" /\ GcmCall /\ call.ntag = BLOCK
    /\ prp_encrypt(call.key, Zero16) # Zero16 /\ Len(call.input) = MaxLen
    /\ ret # 0 /\ bufs.output = obs.pre

\* v as 8 little-endian bytes.
Le64(v) == [ i \in 1..8 |-> IF i = 1 THEN v % 256 ELSE IF i = 2 THEN (v \div 256) % 256 ELSE 0 ]

\* Zero bytes from n up to the next multiple of 16.
PadTo16(n) == Zeros(((n + 15) \div 16) * 16 - n)

\* The ciphertext of a ChaCha20-Poly1305 call: what encrypt put out, what
\* decrypt was given.
MacCiphertext == IF loc.mode = ENCRYPT THEN bufs.output ELSE call.input

MacAadPart == call.header \o PadTo16(Len(call.header))

MacCipherPart == MacCiphertext \o PadTo16(Len(call.input))

MacLengthPart == Le64(Len(call.header)) \o Le64(Len(call.input))

\* The one-time key: the first 32 bytes of keystream block 0.
OneTimeKey ==
    [ i \in 1..32 |->
        chacha20_keystream(ChaChaKey(call.key), <<0, 0, 0, 0>> \o call.nonce, 0, i - 1) ]

\* The Poly1305 tag of the whole MAC input under the one-time key.
MacTag ==
    cf_poly1305_finish_out(
        cf_poly1305_update(cf_poly1305_init(Slice(OneTimeKey, 1, 16), Slice(OneTimeKey, 17, 32)),
                           MacAadPart \o MacCipherPart \o MacLengthPart))

\* C10: in either mode the bytes fed to Poly1305 are, in this order, the
\* associated data, zeros to the next 16-byte boundary, the ciphertext,
\* zeros to the next 16-byte boundary, the two 8-byte little-endian
\* lengths, and the tag is the MAC of that stream; in encrypt mode the
\* ciphertext fed is the output, already encrypted, not the plaintext.
C10_MacInputLayout ==
    ChaChaCall
        => /\ pc \in {"p_key", "p_init", "p_discard", "p_aad"} => obs.macIn = <<>>
           /\ pc = "p_cipher" => obs.macIn = MacAadPart
           /\ pc = "p_pad" => obs.macIn = MacAadPart \o MacCiphertext
           /\ pc = "p_len" => obs.macIn = MacAadPart \o MacCipherPart
           /\ pc \in {"p_mac", "p_plain", "p_fail", "sent", "done"}
                => obs.macIn = MacAadPart \o MacCipherPart \o MacLengthPart
           /\ pc = "p_pad" /\ loc.mode = ENCRYPT
                => /\ bufs.output = ChaChaPayload
                   /\ Len(call.input) > 0 => obs.wrote /\ MacCiphertext # call.input
           /\ pc = "sent" => bufs.tag = MacTag
           /\ pc \in {"p_plain", "p_fail"} => loc.checktag = MacTag

C10_Witness ==
    /\ ChaChaCall /\ pc = "sent" /\ Len(call.header) = 1 /\ Len(call.input) = MaxLen
    /\ Len(obs.macIn) = 4 * BLOCK /\ bufs.tag = MacTag

(***************************************************************************)
(* Claims about the block sequences of the two MAC engines, checked under  *)
(* SpecMac.                                                                *)
(***************************************************************************)
\* The 16-byte blocks of a byte string whose length is a multiple of 16.
RECURSIVE Blocks16(_)
Blocks16(b) ==
    IF Len(b) < BLOCK THEN <<>>
    ELSE << Slice(b, 1, BLOCK) >> \o Blocks16(Slice(b, BLOCK + 1, Len(b)))

\* v as 8 big-endian bytes.
Be64(v) == [ i \in 1..8 |-> IF i = 8 THEN v % 256 ELSE IF i = 7 THEN (v \div 256) % 256 ELSE 0 ]

\* A and C zero-padded to a block boundary each, then the length block.
GhashMessageBlocks ==
    Blocks16(fed.aad \o PadTo16(Len(fed.aad)))
      \o Blocks16(fed.cipher \o PadTo16(Len(fed.cipher)))
      \o << Be64(8 * Len(fed.aad)) \o Be64(8 * Len(fed.cipher)) >>

\* C11: up to and including the first ghash_final the blocks hashed are A
\* zero-padded to a block boundary (no padding block when |A| is a multiple
\* of 16), C zero-padded likewise, and one block holding 8*|A| and 8*|C|
\* as 8-byte big-endian values; the value stored is the GHASH of these
\* blocks and the phase is INVALID.
C11_GhashBlockSequence ==
    eng.kind = "ghash" /\ Len(macOut) = 1
        => /\ log = GhashMessageBlocks
           /\ macOut[1] = ghash_blocks(GhashStart, GhashMessageBlocks, 1).Y
           /\ gh.state = STATE_INVALID

C11_Witness ==
    /\ eng.kind = "ghash" /\ Len(macOut) = 1 /\ gh.state = STATE_INVALID
    /\ Len(fed.aad) = BLOCK + 1 /\ Len(fed.cipher) = BLOCK /\ Len(log) = 4
    /\ log = GhashMessageBlocks

\* The bytes the GHASH accumulator has been given before finalize: the
\* associated data, and once the ciphertext phase has begun its padding
\* and the ciphertext.
GhashLogicalInput ==
    IF "add_cipher" \in seen
    THEN fed.aad \o PadTo16(Len(fed.aad)) \o fed.cipher
    ELSE fed.aad

\* Every block of the log is the next 16 bytes of the input, and count
\* bytes of the input are left buffered.
NextSixteen(input, count, buffer) ==
    /\ count \in 0..15
    /\ BLOCK * Len(log) + count = Len(input)
    /\ \A i \in 1..Len(log) :
          Len(log[i]) = BLOCK /\ log[i] = Slice(input, BLOCK * (i - 1) + 1, BLOCK * i)
    /\ Slice(buffer, 1, count) = Slice(input, BLOCK * Len(log) + 1, Len(input))

\* C15: after every cf_poly1305_update, ghash_add_aad or ghash_add_cipher
\* call the buffered count is in 0..15, and every block the accumulator
\* has handed to the block callback is 16 bytes long and holds the next 16
\* bytes of the input not yet consumed, in order.
C15_WholeBlocksInOrder ==
    /\ eng.kind = "poly" /\ macOut = <<>>
         => NextSixteen(fed.cipher, poly.npartial, poly.partial)
    /\ eng.kind = "ghash" /\ macOut = <<>>
         => NextSixteen(GhashLogicalInput, gh.buffer_used, gh.buffer)

C15_Witness ==
    /\ eng.kind = "ghash" /\ macOut = <<>> /\ ev.op = "add_cipher" /\ ev.ok
    /\ Len(fed.aad) = BLOCK + 1 /\ Len(fed.cipher) = BLOCK + 1
    /\ Len(log) = 3 /\ gh.buffer_used = 1

(***************************************************************************)
(* Claims about the GCM tag, the initial counter block and the keystream,  *)
(* checked under Spec.                                                     *)
(***************************************************************************)
\* The hash subkey of the call.
GcmH == prp_encrypt(call.key, Zero16)

\* GHASH under the subkey of the call over a sequence of blocks.
GhashOf(blocks) == ghash_blocks(ghash_init(GcmH), blocks, 1).Y

\* The initial counter block of the call by the rule of the construction.
GcmY0Expected ==
    IF Len(call.nonce) = 12 THEN call.nonce \o <<0, 0, 0, 1>>
    ELSE GhashOf(Blocks16(call.nonce \o PadTo16(Len(call.nonce)))
                   \o << Be64(0) \o Be64(8 * Len(call.nonce)) >>)

\* The 16-byte tag of the call over associated data a and ciphertext c.
GcmFullTag(a, c) ==
    Xor16B(GhashOf(Blocks16(a \o PadTo16(Len(a))) \o Blocks16(c \o PadTo16(Len(c)))
                     \o << Be64(8 * Len(a)) \o Be64(8 * Len(c)) >>),
           prp_encrypt(call.key, GcmY0Expected))

GcmEncrypting == call.fn = "cf_gcm_encrypt"

\* C12: the tag cf_gcm_encrypt hands out for a length n is the first n
\* bytes of the 16-byte tag (the GHASH output XOR the encrypted initial
\* counter block), and cf_gcm_decrypt returns 0 exactly when the n-byte
\* tag it was given equals the first n bytes of the 16-byte tag over the
\* associated data and ciphertext it was given.
C12_TagIsPrefix ==
    /\ GcmEncrypting /\ pc = "ge_clean"
         => bufs.tag = Slice(Xor16B(loc.full_tag, loc.e_Y0), 1, call.ntag)
    /\ GcmEncrypting /\ pc \in {"ge_clean", "sent"}
         => bufs.tag = Slice(GcmFullTag(call.header, bufs.output), 1, call.ntag)
    /\ GcmDecrypting /\ pc = "done"
         => (ret = 0 <=> bufs.tag = Slice(GcmFullTag(call.header, call.input), 1, call.ntag))

C12_Witness ==
    /\ GcmDecrypting /\ pc = "done" /\ ret = 0 /\ call.ntag = 2 /\ wire.flip = "header"
    /\ GcmH # Zero16
    /\ bufs.tag = Slice(GcmFullTag(call.header, call.input), 1, 2)
    /\ bufs.tag = Slice(wire.sentTag, 1, 2)

\* The steps of a GCM call that follow the tag length assertion.
PastTagAssert == pc \in {"ge_clean", "sent", "gd_cmp", "gd_plain", "gd_clean", "done"}

\* C13: cf_gcm_encrypt and cf_gcm_decrypt get past the tag step exactly
\* for the tag lengths 2..16; with a length of 0, 1 or more than 16 the
\* call stops at the assertion, the tag buffer is what the caller passed
\* and no comparison was made; no call with a length in 2..16 stops.
C13_TagLengthRange ==
    /\ GcmCall /\ call.ntag \notin 2..16
         => /\ ~PastTagAssert
            /\ obs.tagEq = "unknown"
            /\ GcmEncrypting => bufs.tag = Zeros(call.ntag)
            /\ GcmDecrypting => bufs.tag = TagBytes(call.ntag) /\ bufs.output = obs.pre
    /\ GcmCall /\ call.ntag \in 2..16 => pc # "abort"

C13_Witness ==
    /\ GcmDecrypting /\ pc = "abort" /\ call.ntag = BLOCK + 1
    /\ obs.tagEq = "unknown" /\ bufs.tag = TagBytes(BLOCK + 1)
    /\ Len(call.input) = MaxLen

\* The steps of a GCM call between the derivation of Y0 and the cleanup.
Y0Live ==
    /\ GcmCall
    /\ pc \notin {"ge_H", "ge_Y0", "gd_H", "gd_Y0", "sent", "done"}

\* C14: Y0 is the nonce followed by 00 00 00 01 exactly when the nonce is
\* 12 bytes long; otherwise it is the GHASH, under H, of the nonce
\* zero-padded to a block boundary followed by the length block 0,
\* 8 * nonce length, computed in a context of its own; cf_gcm_encrypt and
\* cf_gcm_decrypt derive the same Y0 from the same key and nonce.
C14_InitialCounterBlock ==
    Y0Live => /\ loc.H = GcmH
              /\ loc.Y0 = GcmY0Expected
              /\ loc.ghn.created <=> Len(call.nonce) # 12
              /\ Len(call.nonce) = 12 <=> loc.Y0 = call.nonce \o <<0, 0, 0, 1>>

C14_Witness ==
    /\ GcmDecrypting /\ pc = "gd_aad" /\ wire.flip = "none"
    /\ Len(call.nonce) = BLOCK /\ loc.ghn.created /\ loc.Y0 = GcmY0Expected
    /\ GcmH # Zero16

\* The block b with d added to the big-endian counter in its last 4 bytes.
CounterPlus(b, d) ==
    LET lo == 256 * b[15] + b[16] + d
        hi == 256 * b[13] + b[14] + (lo \div 65536)
    IN [ i \in 1..16 |-> IF i < 13 THEN b[i]
                          ELSE IF i = 13 THEN (hi \div 256) % 256
                          ELSE IF i = 14 THEN hi % 256
                          ELSE IF i = 15 THEN (lo \div 256) % 256
                          ELSE lo % 256 ]

\* The number of keystream blocks a payload of n bytes takes.
PayloadBlocks(n) == (n + BLOCK - 1) \div BLOCK

\* The i-th use of the GCM keystream: the mask of the tag, then the payload.
GcmKeystreamUse(i) ==
    IF i = 1 THEN [ use |-> "mask", block |-> GcmY0Expected ]
    ELSE [ use |-> "payload", block |-> CounterPlus(GcmY0Expected, i - 1) ]

\* The GCM payload: byte i of the input XOR byte i of the keystream that
\* starts at counter Y0 + 1.
GcmPayload ==
    [ i \in 1..Len(call.input) |->
        Xor8(call.input[i],
             prp_encrypt(call.key,
                         CounterPlus(GcmY0Expected, 1 + (i - 1) \div BLOCK))[((i - 1) % BLOCK) + 1]) ]

\* The uses of the ChaCha20 keystream of a call, in order.
ChaChaKeystreamUses ==
    << [ use |-> "polykey", pos |-> 0, n |-> 32 ],
       [ use |-> "discard", pos |-> 32, n |-> 32 ],
       [ use |-> "payload", pos |-> 64, n |-> Len(call.input) ] >>

\* The ChaCha20-Poly1305 payload: byte i of the input XOR byte 64 + i of
\* the keystream.
ChaChaPayloadAt64 ==
    [ i \in 1..Len(call.input) |->
        Xor8(call.input[i],
             chacha20_keystream(ChaChaKey(call.key), <<0, 0, 0, 0>> \o call.nonce,
                                0, 64 + i - 1)) ]

\* The payload of the call has been through the cipher.
PayloadDone ==
    \/ pc \in {"ge_hash", "ge_final", "ge_tag", "ge_clean", "sent"}
    \/ pc \in {"p_pad", "p_len", "p_mac"} /\ call.fn = "cf_chacha20poly1305_encrypt"
    \/ pc = "done" /\ ret = 0

\* C16: in a ChaCha20-Poly1305 call keystream bytes 0..31 make the
\* Poly1305 key and bytes 32..63 are discarded before any payload byte is
\* handled, and payload byte i is XORed with keystream byte 64 + i, in
\* encrypt and in decrypt; in a GCM call the first keystream block, of
\* counter block Y0, is the mask of the tag, and payload block j is
\* XORed with the block of counter Y0 + 1 + j.
C16_KeystreamOrder ==
    /\ ChaChaCall
         => /\ Len(obs.ks) <= 3
            /\ \A i \in 1..Len(obs.ks) : obs.ks[i] = ChaChaKeystreamUses[i]
            /\ obs.wrote => Len(obs.ks) = 3
            /\ PayloadDone => Len(obs.ks) = 3 /\ bufs.output = ChaChaPayloadAt64
    /\ GcmCall
         => /\ Len(obs.ks) <= 1 + PayloadBlocks(Len(call.input))
            /\ \A i \in 1..Len(obs.ks) : obs.ks[i] = GcmKeystreamUse(i)
            /\ obs.wrote => Len(obs.ks) > 1
            /\ Y0Live /\ Len(obs.ks) > 0 => loc.e_Y0 = prp_encrypt(call.key, GcmY0Expected)
            /\ PayloadDone => /\ Len(obs.ks) = 1 + PayloadBlocks(Len(call.input))
                              /\ bufs.output = GcmPayload

C16_Witness ==
    /\ GcmDecrypting /\ pc = "done" /\ ret = 0 /\ Len(call.input) = MaxLen
    /\ Len(call.nonce) = BLOCK /\ Len(obs.ks) = 3
    /\ obs.ks[3] = [ use |-> "payload", block |-> CounterPlus(GcmY0Expected, 2) ]
    /\ bufs.output = GcmPayload

(***************************************************************************)
(* Claims about the Poly1305 key, blocks and limb arithmetic, checked      *)
(* under SpecPoly.                                                         *)
(***************************************************************************)
LimbRun == eng.kind = "limbs"

\* C17: after cf_poly1305_init the stored r has the high nibble of limbs
\* 3, 7, 11, 15 and the low two bits of limbs 4, 8, 12 zero, limb 16 zero
\* and all other bits those of the key; h is zero and npartial is 0;
\* every cf_poly1305_update leaves r and s as they were, and
\* cf_poly1305_finish leaves them zero.
C17_ClampedKey ==
    LimbRun =>
      /\ macOut = <<>>
           => /\ \A i \in {4, 8, 12, 16} :
                    poly.r[i] < 16 /\ poly.r[i] = PolyKeyR(eng.key)[i] % 16
              /\ \A i \in {5, 9, 13} :
                    /\ poly.r[i] % 4 = 0
                    /\ poly.r[i] = PolyKeyR(eng.key)[i] - (PolyKeyR(eng.key)[i] % 4)
              /\ \A i \in {1, 2, 3, 6, 7, 10, 11, 14, 15} : poly.r[i] = PolyKeyR(eng.key)[i]
              /\ Len(poly.r) = 17 /\ poly.r[17] = 0
              /\ poly.s = PolyKeyS(eng.key)
      /\ ev.op = "init" => poly.h = Zero17 /\ poly.npartial = 0
      /\ ev.op = "update" => poly.r = ev.pre.r /\ poly.s = ev.pre.s
      /\ ev.op = "finish" => poly.r = Zero17 /\ poly.s = Zero16

C17_Witness ==
    /\ LimbRun /\ ev.op = "update" /\ eng.key = 0 /\ Len(log) = 3
    /\ poly.r[4] = 15 /\ poly.r[5] = 252 /\ poly.r[1] = 255 /\ poly.s = PolyKeyS(0)

\* h after the blocks cs[i..] were absorbed into ctx, one poly1305_block each.
RECURSIVE PolyFold(_, _, _)
PolyFold(ctx, cs, i) ==
    IF i > Len(cs) \/ Len(ctx.h) # 17 THEN ctx
    ELSE PolyFold(poly1305_block(ctx, cs[i]), cs, i + 1)

\* The tag of the blocks of log under the key of the run.
PolyTagOfLog ==
    LET x == PolyFold(cf_poly1305_init(PolyKeyR(eng.key), PolyKeyS(eng.key)), log, 1).h
    IN IF Len(x) # 17 THEN <<>>
       ELSE Slice(poly1305_add(poly1305_full_reduce(x), Append(PolyKeyS(eng.key), 0)), 1, 16)

\* C18: block i of the message, when whole, is absorbed as its 16 bytes
\* in limbs 0..15 with 1 in limb 16; at finalize a pending block of n
\* bytes, 1 <= n <= 15, is absorbed once, as its bytes in limbs 0..n-1, 1
\* in limb n and zeros above; with nothing pending finalize absorbs
\* nothing, and the tag of the empty message is s.
C18_BlockMarkers ==
    LimbRun =>
      /\ \A i \in 1..Len(log) :
            i <= Len(fed.cipher) \div 16
              => log[i] = Slice(fed.cipher, 16 * (i - 1) + 1, 16 * i) \o <<1>>
      /\ macOut = <<>> => Len(log) = Len(fed.cipher) \div 16
      /\ macOut # <<>>
           => /\ ev.pre.npartial = Len(fed.cipher) % 16
              /\ Len(log) = Len(fed.cipher) \div 16
                               + (IF Len(fed.cipher) % 16 = 0 THEN 0 ELSE 1)
              /\ Len(fed.cipher) % 16 # 0
                   => /\ Len(log[Len(log)]) = 17
                      /\ \A i \in 1..17 :
                            log[Len(log)][i] =
                               IF i <= Len(fed.cipher) % 16
                               THEN fed.cipher[16 * (Len(fed.cipher) \div 16) + i]
                               ELSE IF i = (Len(fed.cipher) % 16) + 1 THEN 1 ELSE 0
              /\ macOut[1] = PolyTagOfLog
              /\ Len(fed.cipher) = 0 => macOut[1] = PolyKeyS(eng.key)

C18_Witness ==
    /\ LimbRun /\ macOut # <<>> /\ Len(fed.cipher) = 2 * BLOCK + 1 /\ Len(log) = 3
    /\ log[3][1] = fed.cipher[2 * BLOCK + 1] /\ log[3][2] = 1 /\ log[3][17] = 0
    /\ log[1][17] = 1

\* 2^130 - 5 in limbs.
P1305 == <<251>> \o Fill(255, 15) \o <<3>>

\* x >= 2^130 - 5, for an x whose limbs 0..15 are bytes.
AtLeastP(x) ==
    \/ x[17] > 3
    \/ x[17] = 3 /\ x[1] >= 251 /\ \A i \in 2..16 : x[i] = 255

\* x - y, limb by limb with a borrow, for x >= y.
RECURSIVE LimbSub(_, _, _, _, _)
LimbSub(x, y, i, borrow, acc) ==
    IF i > 17 THEN acc
    ELSE LET d == x[i] - y[i] - borrow
         IN LimbSub(x, y, i + 1, IF d < 0 THEN 1 ELSE 0,
                    Append(acc, IF d < 0 THEN d + 256 ELSE d))

\* What poly1305_full_reduce is to do to x.
FullyReduced(x, red) ==
    /\ Len(x) = 17 /\ Len(red) = 17
    /\ Bit7(poly1305_add(x, negative_1305)[17]) = 0 <=> AtLeastP(x)
    /\ red = IF AtLeastP(x) THEN LimbSub(x, P1305, 1, 0, <<>>) ELSE x
    /\ ~AtLeastP(red)
    /\ \A i \in 1..17 : red[i] \in 0..255

\* C19: for the accumulator x that cf_poly1305_finish hands to
\* poly1305_full_reduce the result is x - (2^130 - 5) when
\* x >= 2^130 - 5 and x otherwise, the choice being bit 7 of limb 16 of
\* x + _negative_1305; the result is below 2^130 - 5 after this one
\* conditional subtraction, and the tag is the result plus s.
C19_FullReduce ==
    LimbRun /\ ev.op = "finish"
      => LET x == cf_poly1305_finish_last(ev.pre).h
             red == poly1305_full_reduce(x)
         IN /\ FullyReduced(x, red)
            /\ macOut[1] = Slice(poly1305_add(red, Append(ev.pre.s, 0)), 1, 16)

C19_Witness ==
    /\ LimbRun /\ ev.op = "finish" /\ eng.key = 1 /\ Len(fed.cipher) = 2 * BLOCK
    /\ LET x == cf_poly1305_finish_last(ev.pre).h
       IN Len(x) = 17 /\ AtLeastP(x) /\ poly1305_full_reduce(x) = LimbSub(x, P1305, 1, 0, <<>>)

\* v fits 32 bits.
Below2_32(v) == v >= 0 /\ v \div 65536 < 65536

\* Limbs 0..15 at most 255, limb 16 at most 4.
LimbsInRange(h) ==
    /\ Len(h) = 17
    /\ \A i \in 1..16 : h[i] \in 0..255
    /\ h[17] \in 0..4

\* C20: after each block absorbed limbs 0..15 of h are at most 255 and
\* limb 16 is at most 4, and no carry or accum of poly1305_add,
\* poly1305_mul and poly1305_min_reduce reaches 2^32 during
\* cf_poly1305_update or cf_poly1305_finish.
C20_LimbBounds ==
    LimbRun =>
      /\ macOut = <<>> => LimbsInRange(poly.h)
      /\ ev.op = "update" => Below2_32(cf_poly1305_update_peak(ev.pre, ev.buf))
      /\ ev.op = "finish"
           => /\ LimbsInRange(cf_poly1305_finish_last(ev.pre).h)
              /\ Below2_32(cf_poly1305_finish_peak(ev.pre))

C20_Witness ==
    /\ LimbRun /\ ev.op = "update" /\ eng.key = 0 /\ eng.fill = "ones"
    /\ Len(log) = 3 /\ Len(ev.buf) = BLOCK + 1 /\ LimbsInRange(poly.h)
    /\ cf_poly1305_update_peak(ev.pre, ev.buf) > 65536 * 2048

(***************************************************************************)
(* The claim about mem_eq, checked under SpecEq.                           *)
(***************************************************************************)
\* C21: mem_eq(a, b, len) takes len loop steps whatever the bytes are and
\* wherever the first pair that differs stands, and returns 1 exactly when
\* the first len bytes of a and of b are equal, 0 otherwise; with len = 0
\* it returns 1.
C21_ConstantTimeEqual ==
    call.fn = "mem_eq" /\ pc = "eq_done"
        => /\ ev.steps = call.len
           /\ ret \in {0, 1}
           /\ ret = 1 <=> \A i \in 1..call.len : call.a[i] = call.b[i]
           /\ ev.diff = 0 <=> ret = 1
           /\ call.len = 0 => ret = 1

C21_Witness ==
    /\ call.fn = "mem_eq" /\ pc = "eq_done" /\ call.len = MaxEq
    /\ call.a[1] # call.b[1] /\ \A i \in 2..MaxEq : call.a[i] = call.b[i]
    /\ ret = 0 /\ ev.steps = MaxEq

(***************************************************************************)
(* The buffer at the assertion of ghash_final, checked under SpecMac.      *)
(***************************************************************************)
\* The context of ghash_final after its padding step, before the lengths.
GhashFinalPadded(ctx) ==
    IF ctx.state = STATE_AAD \/ ctx.state = STATE_CIPHER
    THEN [ ghash_add_pad(ctx) EXCEPT !.state = STATE_INVALID ]
    ELSE ctx

\* C22: assert(buffer_used == 0) of ghash_final never fails. From every
\* context that ghash_add_aad and ghash_add_cipher calls with chunks of any
\* size reach without failing a phase assertion, ghash_final leaves no
\* buffered byte after its padding step, has 8 buffered bytes after the
\* first length field and none after the second, so that the assertion
\* holds; no ghash_final call aborts, and the buffer is empty after it.
C22_FinalBufferEmpty ==
    /\ eng.kind = "ghash" /\ ~trap
          => LET c == GhashFinalPadded(gh)
                 a == ghash_add(c, write64_be(c.len_aad * 8))
             IN /\ c.buffer_used = 0
                /\ a.buffer_used = 8
                /\ ghash_final_enter(gh).buffer_used = 0
                /\ ghash_final_assert(gh)
    /\ eng.kind = "ghash" /\ ev.op = "final" => ev.ok /\ ~trap /\ gh.buffer_used = 0

C22_Witness ==
    /\ eng.kind = "ghash" /\ ev.op = "final" /\ ev.ok /\ ~trap
    /\ ev.pre = STATE_CIPHER /\ Len(macOut) = 1
    /\ Len(fed.aad) % BLOCK = 1 /\ Len(fed.cipher) % BLOCK = 1 /\ Len(fed.cipher) > BLOCK
    /\ gh.buffer_used = 0

(***************************************************************************)
(* The partial-buffer count of Poly1305 inside process, checked under      *)
(* Spec.                                                                   *)
(***************************************************************************)
\* C23: in every ChaCha20-Poly1305 call, whatever the lengths of the
\* associated data and of the payload, the partial-buffer count of the
\* Poly1305 context is 0 after the padding of the associated data, 0 after
\* the padding of the ciphertext and 0 when cf_poly1305_finish is called;
\* the MAC input is then a whole number of 16-byte blocks and
\* cf_poly1305_finish does not take the poly1305_last_block path.  A
\* padding update of length 0 leaves the Poly1305 context as it was.
C23_NoPartialAtFinish ==
    ChaChaCall =>
        /\ pc = "p_aad"
              => LET h == cf_poly1305_update(loc.poly, call.header)
                     n == PADLEN(Len(call.header))
                     p == cf_poly1305_update(h, Slice(Zero16, 1, n))
                 IN /\ loc.poly.npartial = 0
                    /\ h.npartial = Len(call.header) % 16
                    /\ p.npartial = 0
                    /\ n = 0 => p = h
        /\ pc = "p_cipher" => loc.poly.npartial = 0 /\ Len(obs.macIn) % 16 = 0
        /\ pc = "p_pad"
              => /\ loc.poly.npartial = Len(call.input) % 16
                 /\ PADLEN(Len(call.input)) = 0
                       => cf_poly1305_update(loc.poly, <<>>) = loc.poly
        /\ pc = "p_len" => loc.poly.npartial = 0 /\ Len(obs.macIn) % 16 = 0
        /\ pc = "p_mac"
              => /\ loc.poly.npartial = 0
                 /\ Len(obs.macIn) % 16 = 0
                 /\ Len(obs.macIn) = Len(call.header) + PADLEN(Len(call.header))
                                       + Len(call.input) + PADLEN(Len(call.input)) + 16
                 /\ cf_poly1305_finish_last(loc.poly) = loc.poly

C23_Witness ==
    /\ ChaChaDecrypting /\ pc = "p_mac"
    /\ Len(call.header) = 1 /\ Len(call.input) = BLOCK + 1
    /\ loc.poly.npartial = 0 /\ Len(obs.macIn) = 4 * BLOCK
    /\ cf_poly1305_finish_last(loc.poly) = loc.poly

====
